---- MODULE Spec2Model ----
(***************************************************************************)
(* Verification model of the NAS directory-size scanner (skiweg1985/ssa).  *)
(*                                                                         *)
(* SpecScan : ScannerService.run_scan / is_scan_running                     *)
(*            (src/app/services/scanner.py) together with the trigger_scan *)
(*            route (src/app/api/routes.py) and the scheduler's job firing *)
(*            (src/app/services/scheduler.py).  All of them run on one     *)
(*            asyncio event loop, so the code between two awaits is one    *)
(*            atomic action.                                               *)
(* SpecPoll : SynologyAPI.get_dir_size and DirSizePollingHelper            *)
(*            (src/explore_syno_api.py, src/app/services/                  *)
(*            dir_size_polling.py): one threaded path measurement with its *)
(*            shutdown event.  Every sleep and every API call is a         *)
(*            blocking point at which the event may be set.                *)
(***************************************************************************)
EXTENDS Integers, Sequences, FiniteSets, Bags, TLC

VARIABLES
    \* ---- scanner service (SpecScan) ----
    now,              \* wall clock, in seconds
    config,           \* slug -> scan descriptor loaded from the configuration
    running_scans,    \* ScannerService._running_scans
    scan_status,      \* ScannerService._scan_status
    scan_finished_at, \* ScannerService._scan_finished_at (-1: no entry)
    calls,            \* the run_scan invocations: position and local variables
    realFinish,       \* history: when the last run of a slug really finished
    \* ---- one path measurement (SpecPoll) ----
    pc,                   \* where the measuring thread stands
    shutdown_event,       \* the threading.Event given to get_dir_size
    active_tasks,         \* SynologyAPI._active_tasks
    waited,               \* seconds of loop sleep accrued
    current_poll_interval,
    no_progress_count,
    last_progress,        \* -1: None
    last_total_size,      \* -1: None
    error_599_count,
    failed_status_checks,
    status_response,      \* the status response in hand when the engine returned
    outcome,              \* how the measurement ended
    result,               \* the size returned (-1: none)
    cleanup_called,       \* the main thread has run cleanup_tasks
    stop_requested,       \* history: a DirSize stop request was sent for the task
    late_poll,            \* history: a status poll was sent with the event set
    limit_polls,          \* history: status polls sent with waited >= max_wait
    \* ---- the polling interval (SpecInterval) ----
    min_poll_interval,    \* the poll_interval the loop was started with
    \* ---- the history store (SpecStore) ----
    clock,                \* wall clock, in ticks of a fraction of a second
    started,              \* history: how many runs have passed the running check
    runs,                 \* slug -> the run_scan calls past the running check
    results,              \* ScanStorage._results
    rows,                 \* the table scan_results, a bag of rows
    last_add,             \* history: the slug whose add_result was the last step
    last_finish,          \* slug -> when its last run finished (-1: never)
    \* ---- the configuration loader (SpecLoad) ----
    file,                 \* the scans of the configuration file, in file order
    registry,             \* the scans of the ConfigYAML that load_config returned
    config_warnings,      \* loader._config_warnings
    loaded,               \* load_config has returned
    \* ---- the scheduler service (SpecReload) ----
    scheduler_config,     \* SchedulerService.config
    job_ids,              \* the slugs that have an entry in SchedulerService._job_ids
    jobs,                 \* the scan jobs held by the APScheduler instance
    reload_result,        \* what the last load or reload returned
    \* ---- the progress route (SpecProgress) ----
    history,              \* the stored results of the scan, oldest first
    live,                 \* ScannerService._scan_status of the running scan
    progress_response,    \* progress_percent of the response
    answered,             \* the route has returned
    \* ---- the rate limiter of one client (SpecRate) ----
    rate_now,             \* wall clock, in ticks
    last_api_call_time,   \* SynologyAPI._last_api_call_time
    api_threads,          \* the calls of _api_call in flight, one per thread
    calls_started,        \* history: how many calls have been entered
    last_sent,            \* history: when the last request went out (-1: none)
    min_gap,              \* history: the smallest time between two requests
    \* ---- progress detection (SpecDetect) ----
    loop_state,           \* the interval, counter and last values of the polling loop
    last_data,            \* history: the data of the previous status answer
    \* ---- the asynchronous measurement beside the synchronous one (SpecAsync) ----
    async_run,            \* the local variables of one get_dir_size_async call
    wire,                 \* the NAS answer that both measurements are reading
    client                \* the SynologyAPI instance of a run while run_scan finalizes

scanVars == <<now, config, running_scans, scan_status, scan_finished_at,
              calls, realFinish>>

pollVars == <<pc, shutdown_event, active_tasks, waited, current_poll_interval,
              no_progress_count, last_progress, last_total_size, error_599_count,
              failed_status_checks, status_response, outcome, result,
              cleanup_called, stop_requested, late_poll, limit_polls>>

intervalVars == <<min_poll_interval>>

storeVars == <<clock, started, runs, results, rows, last_add, last_finish>>

loadVars == <<file, registry, config_warnings, loaded>>

schedVars == <<scheduler_config, job_ids, jobs, reload_result>>

\* the groups of the specifications that follow the loader
progressVars == <<history, live, progress_response, answered>>

rateVars == <<rate_now, last_api_call_time, api_threads, calls_started,
              last_sent, min_gap>>

detectVars == <<loop_state, last_data>>

asyncVars == <<async_run, wire, client>>

laterVars == <<schedVars, progressVars, rateVars, detectVars, asyncVars>>

moreVars == <<loadVars, laterVars>>

vars == <<scanVars, pollVars, intervalVars, storeVars, moreVars>>

----------------------------------------------------------------------------
(* Bounds of the model                                                      *)
MaxTime == 5

MaxWait == 16

MaxStartInterval == 11

MaxNoProgress == 8

MaxClock == 21

MaxFineClock == 1

MaxRuns == 3

TicksPerSecond == 2

MaxHistory == 2

MaxScans == 3

MaxCreated == 2

\* the rate limiter is followed up to this tick and for this many calls
MaxRateClock == 6

MaxCalls == 3

(* Program constants                                                        *)
GracePeriod == 5
PollInterval == 2
MaxPollInterval == 10
IntervalStep == 2
NoProgressLimit == 3
Error599Wait == 5
MaxFailedChecks == 5
MaxError599 == 3

Slugs == {"s1", "s2"}
Calls == {1, 2}

NameOf(s) == IF s = "s1" THEN "Scan One" ELSE "Scan Two"
ScanOrder == <<"s1", "s2">>
Identifiers == Slugs \cup {NameOf(s) : s \in Slugs}

(* Strings that the code takes apart are sequences of one-character strings *)
Slash == <<"/">>

\* the descriptors loaded: s1 mixes an explicit path with a share and a folder,
\* s2 has one explicit path or one share
ConfigChoices ==
    { [s \in Slugs |->
         IF s = "s1"
         THEN [paths |-> << <<"b">> >>, shares |-> << <<"s">> >>, folders |-> << <<"f">> >>]
         ELSE second] :
      second \in { [paths |-> << <<"/", "a">> >>, shares |-> <<>>, folders |-> <<>>],
                   [paths |-> <<>>, shares |-> << <<"t">> >>, folders |-> <<>>] } }

----------------------------------------------------------------------------
(* ScannerService helpers                                                   *)

StartsWithSlash(p) == Len(p) > 0 /\ p[1] = "/"

\* ScannerService._normalize_path (no blanks occur in the modelled paths)
NormalizePath(p) ==
    IF Len(p) = 0 THEN <<>>
    ELSE IF StartsWithSlash(p) THEN p ELSE Slash \o p

RECURSIVE ExplicitPaths(_)
ExplicitPaths(ps) ==
    IF ps = <<>> THEN <<>>
    ELSE << (IF StartsWithSlash(Head(ps)) THEN Head(ps) ELSE Slash \o Head(ps)) >>
         \o ExplicitPaths(Tail(ps))

RECURSIVE FolderPaths(_, _)
FolderPaths(share, folders) ==
    IF folders = <<>> THEN <<>>
    ELSE << Slash \o share \o Slash \o Head(folders) >>
         \o FolderPaths(share, Tail(folders))

RECURSIVE SharePaths(_, _)
SharePaths(shares, folders) ==
    IF shares = <<>> THEN <<>>
    ELSE (IF folders # <<>> THEN FolderPaths(Head(shares), folders)
                            ELSE << Slash \o Head(shares) >>)
         \o SharePaths(Tail(shares), folders)

\* ScannerService._determine_paths
DeterminePaths(cfg) == ExplicitPaths(cfg.paths) \o SharePaths(cfg.shares, cfg.folders)

RECURSIVE MapNormalize(_)
MapNormalize(ps) ==
    IF ps = <<>> THEN <<>> ELSE <<NormalizePath(Head(ps))>> \o MapNormalize(Tail(ps))

\* get_scan_config: the first scan whose slug or name is the identifier
RECURSIVE FirstMatch(_, _)
FirstMatch(order, ident) ==
    IF order = <<>> THEN "none"
    ELSE IF Head(order) = ident \/ NameOf(Head(order)) = ident THEN Head(order)
    ELSE FirstMatch(Tail(order), ident)

GetScanConfig(ident) == FirstMatch(ScanOrder, ident)


----------------------------------------------------------------------------
(* ScannerService state                                                     *)

NoStatus == [present |-> FALSE]
InitialStatus == [present |-> TRUE, expected_paths |-> <<>>, finished |-> FALSE]

NoResult == [status |-> "none", items |-> <<>>, error |-> ""]
FreeCall == [slug |-> "none", pc |-> "free", paths |-> <<>>, idx |-> 0, items |-> <<>>,
             pending_return |-> FALSE, res |-> NoResult, added |-> <<>>,
             busy_on_arrival |-> FALSE, effects |-> {}]

\* The dictionaries are keyed by slug: any other key finds no entry.
RunningFlag(key) == IF key \in Slugs THEN running_scans[key] ELSE FALSE
FinishedAt(key) == IF key \in Slugs THEN scan_finished_at[key] ELSE -1

\* variant of WithinGrace whose window also covers the fifth second
WithinGrace_Inclusive(key) == FinishedAt(key) >= 0 /\ now - FinishedAt(key) <= GracePeriod

\* is_scan_running, the value returned
WithinGrace(key) == FinishedAt(key) >= 0 /\ now - FinishedAt(key) < GracePeriod

\* variant of IsScanRunning that does not look at the running flag
IsScanRunning_GraceOnly(key) == FinishedAt(key) >= 0 /\ now - FinishedAt(key) < GracePeriod

IsScanRunning(key) == RunningFlag(key) \/ WithinGrace(key)

\* is_scan_running, its effect: an expired grace entry is deleted with the status
GraceExpired(key) == ~RunningFlag(key) /\ FinishedAt(key) >= 0 /\ ~WithinGrace(key)
FinishedAtAfterQuery(key) ==
    IF GraceExpired(key) THEN [scan_finished_at EXCEPT ![key] = -1] ELSE scan_finished_at
StatusAfterQuery(key) ==
    IF GraceExpired(key) THEN [scan_status EXCEPT ![key] = NoStatus] ELSE scan_status

\* trigger_scan, the response: the running check is made with the identifier
\* of the request (routes.py 451)
TriggerResponse(ident) == [triggered |-> ~IsScanRunning(ident)]

\* the transient result of a rejected run, and the initial result of a run
TransientResult == [status |-> "running", items |-> <<>>, error |-> ""]

\* variant of LoginFailedResult that does not set the status
LoginFailedResult_KeepStatus(res) == [res EXCEPT !.error = "login failed"]

\* login failure (scanner.py 231-235)
LoginFailedResult(res) == [res EXCEPT !.status = "failed", !.error = "login failed"]

\* empty path list (scanner.py 247-251)
NoPathResult(res) == [res EXCEPT !.status = "failed", !.error = "no valid path"]

\* the handler of unexpected exceptions (scanner.py 429-434)
UnexpectedErrorResult(res) == [res EXCEPT !.status = "failed", !.error = "unexpected error"]

SuccessCount(items) == Cardinality({i \in 1..Len(items) : items[i].success})

\* after the path loop (scanner.py 389-419)
FinalStatus(items) == IF SuccessCount(items) = 0 THEN "failed" ELSE "completed"
CompletedResult(res, items) ==
    [res EXCEPT !.items = items,
                !.status = FinalStatus(items),
                !.error = IF SuccessCount(items) = 0 THEN "all paths failed" ELSE ""]

\* the item appended for one path (scanner.py 315-387)
ItemFor(path, out) ==
    CASE out = "result" -> [folder_name |-> path, success |-> TRUE, error |-> ""]
      [] out = "none"   -> [folder_name |-> path, success |-> FALSE, error |-> "no results"]
      [] OTHER          -> [folder_name |-> path, success |-> FALSE, error |-> "exception"]

\* variant of LoopEnds that leaves the loop at the first failed path
LoopEnds_StopOnFailure(idx, paths, out) == idx >= Len(paths) \/ out # "result"

\* the loop goes on with the next path after every outcome (scanner.py 299, 339, 381)
LoopEnds(idx, paths, out) == idx >= Len(paths)

\* storage.add_result as run_scan sees it: one more result handed to the store
AddResult(added, res) == Append(added, res)

\* variant of ShouldPersist that saves completed results only
ShouldPersist_OnlyCompleted(res) == res.status = "completed"

\* scanner.py 446: only a finished result is saved
ShouldPersist(res) == res.status # "running"
PersistFinal(added, res) == IF ShouldPersist(res) THEN AddResult(added, res) ELSE added

\* variant of RunningAfterFinally that leaves the flag as it is
RunningAfterFinally_Kept(slug) == running_scans

\* the outer finally (scanner.py 436-441)
RunningAfterFinally(slug) == [running_scans EXCEPT ![slug] = FALSE]
FinishedAtAfterFinally(slug) ==
    IF scan_status[slug].present THEN [scan_finished_at EXCEPT ![slug] = now]
    ELSE scan_finished_at

----------------------------------------------------------------------------
(* Path measurement: values and pure functions                              *)

TaskId == "t1"

\* the values the NAS may send in the field "finished"
FinishedValues ==
    { [type |-> "bool", text |-> "true"], [type |-> "bool", text |-> "false"],
      [type |-> "str", text |-> "YES"], [type |-> "str", text |-> "True"],
      [type |-> "str", text |-> "false"], [type |-> "str", text |-> ""],
      [type |-> "num", text |-> "1"], [type |-> "num", text |-> "2"],
      [type |-> "num", text |-> "0"], [type |-> "none", text |-> ""] }

\* str.lower on the strings that occur
Lower(t) == CASE t = "YES" -> "yes" [] t = "True" -> "true" [] OTHER -> t

\* SynologyAPI._is_task_finished
IsTaskFinished(v) ==
    \/ v.type = "bool" /\ v.text = "true"
    \/ v.type = "str" /\ Lower(v.text) \in {"true", "1", "yes"}
    \/ v.type = "num" /\ v.text = "1"

\* Python truth value: if final_data.get("finished")
Truthy(v) ==
    CASE v.type = "bool" -> v.text = "true"
      [] v.type = "str"  -> v.text # ""
      [] v.type = "num"  -> v.text # "0"
      [] OTHER           -> FALSE

NoValue == [type |-> "none", text |-> ""]
NoResponse == [kind |-> "unset", finished |-> NoValue, progress |-> 0, total_size |-> 0]
ErrorResponse(k) == [kind |-> k, finished |-> NoValue, progress |-> 0, total_size |-> 0]

\* what _api_call may return for a DirSize status request: None, an error of
\* code 160, 599 or another code, or a success with its data
StatusResponses ==
    { ErrorResponse(k) : k \in {"none", "e160", "e599", "eother"} }
    \cup { [kind |-> "ok", finished |-> f, progress |-> p, total_size |-> n] :
              f \in FinishedValues, p \in {0, 1}, n \in {1, 2} }

\* what the BackgroundTask list may tell about the task
ListResponses == {"failed", "absent", "running", "finished"}

Succeeded(resp) == resp.kind = "ok"

\* _check_and_handle_finished_task returns a result
FinishedTask(resp) == Succeeded(resp) /\ IsTaskFinished(resp.finished)

\* the finished test of handle_error_599 (dir_size_polling.py 506-508, 542-544)
FinishedByTruth(resp) == Succeeded(resp) /\ Truthy(resp.finished)

\* _extract_task_result
ExtractTaskResult(resp) == resp.total_size

Min(a, b) == IF a < b THEN a ELSE b

\* update_polling_interval: is progress seen
ProgressDetected(resp, lastp, lastn) ==
    \/ lastp >= 0 /\ resp.progress > lastp
    \/ lastn >= 0 /\ resp.total_size > lastn

\* variant of NextNoProgress that goes on counting when progress is seen
NextNoProgress_KeepCount(resp, lastp, lastn, count) == count + 1

\* update_polling_interval: the interval and the counter after a response
NextNoProgress(resp, lastp, lastn, count) ==
    IF ProgressDetected(resp, lastp, lastn) THEN 0 ELSE count + 1
NextInterval(resp, lastp, lastn, count, interval) ==
    IF ProgressDetected(resp, lastp, lastn)
    THEN (IF interval > min_poll_interval THEN min_poll_interval ELSE interval)
    ELSE IF count + 1 >= NoProgressLimit /\ interval < MaxPollInterval
         THEN Min(interval + IntervalStep, MaxPollInterval)
         ELSE interval

\* process_status_response: the last positive size is kept
NextLastSize(resp, lastn) == IF resp.total_size > 0 THEN resp.total_size ELSE lastn

\* variant of SleepTime that does not count the longer pause after a 599
SleepTime_IntervalOnly == IF error_599_count > 0 THEN 0 ELSE current_poll_interval

\* the sleep of one loop round (dir_size_polling.py 620-644)
SleepTime == IF error_599_count > 0 THEN Error599Wait ELSE current_poll_interval

\* variant of TimeoutReached that lets the loop run one round longer
TimeoutReached_Late(w) == w > MaxWait

\* check_timeout_and_final_status and the break after it (dir_size_polling.py 190, 652)
TimeoutReached(w) == w >= MaxWait

----------------------------------------------------------------------------
(* History store: values and pure functions                                 *)

\* nas.host of the descriptors: both scans measure the same NAS
NasHost(s) == "nas"

\* the folder_path of the row written for a result without a successful item
MarkerPath == <<"__SCAN_STATUS_MARKER__">>

\* the descriptors of SpecStore: both scans measure the path "//a//b/"
StoreConfig ==
    [s \in Slugs |->
       [paths |-> << <<"/", "/", "a", "/", "/", "b", "/">> >>, shares |-> <<>>, folders |-> <<>>]]

\* ScanStorage._normalize_folder_path: strip().lstrip('/') (no blanks occur)
RECURSIVE NormalizeFolderPath(_)
NormalizeFolderPath(p) ==
    IF p # <<>> /\ Head(p) = "/" THEN NormalizeFolderPath(Tail(p)) ELSE p

\* timestamp.replace(microsecond=0)
WholeSecond(ts) == ts - (ts % TicksPerSecond)

\* ScanStorage._generate_primary_key; the digest stands for the string it hashes
GeneratePrimaryKey(host, path, ts) == <<host, NormalizeFolderPath(path), WholeSecond(ts)>>

\* what get_latest_result and get_latest_completed_result return for None
NoStoredResult == [timestamp |-> -1, status |-> "none", error |-> "", items |-> <<>>]

\* no add_result has run yet
NoAdd == "none"

\* the ScanResultItem of one path: failed, measured with 0 bytes, measured with
\* 1 byte (bytes = -1: total_size is None)
MeasuredItem(path, out) ==
    [folder_name |-> path, success |-> out # "fail",
     bytes |-> CASE out = "size" -> 1 [] out = "zero" -> 0 [] OTHER -> -1]

\* the row of one successful item (storage.py 369-406)
ItemRow(slug, res, host, item) ==
    [id |-> GeneratePrimaryKey(host, NormalizeFolderPath(item.folder_name), res.timestamp),
     nas_host |-> host, folder_path |-> NormalizeFolderPath(item.folder_name),
     scan_slug |-> slug, timestamp |-> res.timestamp, status |-> res.status,
     success |-> item.success, bytes |-> item.bytes, scan_error |-> res.error]

\* the marker row of a result without a successful item (storage.py 408-446)
MarkerRow(slug, res, host) ==
    [id |-> GeneratePrimaryKey(host, MarkerPath, res.timestamp),
     nas_host |-> host, folder_path |-> MarkerPath,
     scan_slug |-> slug, timestamp |-> res.timestamp, status |-> res.status,
     success |-> FALSE, bytes |-> -1, scan_error |-> res.error]

\* variant of InsertOrReplace that keeps the rows in conflict
InsertOrReplace_KeepOld(rws, row) == rws (+) SetToBag({row})

\* the rows of a table (a bag) that satisfy keep
SelectRows(rws, keep(_)) == [r \in { x \in DOMAIN rws : keep(x) } |-> rws[r]]

\* INSERT OR REPLACE: the rows in conflict on the primary key or on
\* UNIQUE(nas_host, folder_path, timestamp) are deleted (storage.py 131-143, 382)
InsertOrReplace(rws, row) ==
    SelectRows(rws, LAMBDA r : /\ r.id # row.id
                               /\ <<r.nas_host, r.folder_path, r.timestamp>>
                                     # <<row.nas_host, row.folder_path, row.timestamp>>)
    (+) SetToBag({row})

\* the loop over the successful items (storage.py 365-406)
RECURSIVE InsertItems(_, _, _, _, _)
InsertItems(rws, slug, res, host, items) ==
    IF items = <<>> THEN rws
    ELSE InsertItems(IF Head(items).success
                     THEN InsertOrReplace(rws, ItemRow(slug, res, host, Head(items)))
                     ELSE rws,
                     slug, res, host, Tail(items))

SlugTimestamps(rws, slug) ==
    { r.timestamp : r \in { x \in DOMAIN rws : x.scan_slug = slug } }

\* SELECT DISTINCT timestamp ... ORDER BY timestamp DESC LIMIT n; the ISO texts
\* of UTC datetimes order as the instants do
NewestTimestamps(T, n) == { t \in T : Cardinality({ u \in T : u > t }) < n }

\* the DELETE that follows the insert (storage.py 450-462)
PruneHistory(rws, slug) ==
    SelectRows(rws, LAMBDA r : \/ r.scan_slug # slug
                               \/ r.timestamp \in NewestTimestamps(SlugTimestamps(rws, slug),
                                                                   MaxHistory))

\* ScanStorage._save_to_disk
SaveToDisk(rws, slug, res, host) ==
    PruneHistory(IF SuccessCount(res.items) > 0
                 THEN InsertItems(rws, slug, res, host, res.items)
                 ELSE InsertOrReplace(rws, MarkerRow(slug, res, host)),
                 slug)

\* lst[-n:] of Python
LastN(lst, n) == IF n = 0 \/ n >= Len(lst) THEN lst ELSE SubSeq(lst, Len(lst) - n + 1, Len(lst))

\* add_result on the list in memory (storage.py 478-481)
AppendResult(lst, res) ==
    IF Len(lst) + 1 > MaxHistory THEN LastN(Append(lst, res), MaxHistory)
    ELSE Append(lst, res)

\* ScanStorage.get_latest_result
GetLatestResult(slug) ==
    IF results[slug] = <<>> THEN NoStoredResult ELSE results[slug][Len(results[slug])]

\* the test of get_latest_completed_result (storage.py 528-530)
IsCompletedWithSize(res) ==
    /\ res.status = "completed"
    /\ \E i \in 1..Len(res.items) : res.items[i].success /\ res.items[i].bytes > 0

\* variant of LatestCompletedFrom that searches from the oldest result on
RECURSIVE LatestCompletedFrom_Oldest(_, _)
LatestCompletedFrom_Oldest(lst, i) ==
    IF lst = <<>> THEN NoStoredResult
    ELSE IF IsCompletedWithSize(Head(lst)) THEN Head(lst)
    ELSE LatestCompletedFrom_Oldest(Tail(lst), i)

\* for result in reversed(self._results[scan_slug]) (storage.py 527-533)
RECURSIVE LatestCompletedFrom(_, _)
LatestCompletedFrom(lst, i) ==
    IF i = 0 THEN NoStoredResult
    ELSE IF IsCompletedWithSize(lst[i]) THEN lst[i]
    ELSE LatestCompletedFrom(lst, i - 1)

\* ScanStorage.get_latest_completed_result
GetLatestCompletedResult(slug) == LatestCompletedFrom(results[slug], Len(results[slug]))

\* ScanStorage.get_all_results
GetAllResults(slug) == results[slug]

\* ScanStorage.get_results_since
GetResultsSince(slug, since) ==
    SelectSeq(results[slug], LAMBDA r : r.timestamp >= since)

\* the grace period in clock ticks
GraceTicks == GracePeriod * TicksPerSecond

\* variant of StoreScanRunning that lets a second run of a slug start
StoreScanRunning_SecondRun(slug) == Len(runs[slug]) >= 2

\* is_scan_running at the clock of the store: a run of the slug is in flight,
\* or the last one finished less than the grace period ago
StoreScanRunning(slug) ==
    \/ runs[slug] # <<>>
    \/ last_finish[slug] >= 0 /\ clock - last_finish[slug] < GraceTicks

RemoveAt(seq, i) == SubSeq(seq, 1, i - 1) \o SubSeq(seq, i + 1, Len(seq))

\* ScanStorage._init_database: DROP TABLE IF EXISTS scan_results, then CREATE
\* TABLE; whatever the file held, the table is empty afterwards
InitDatabase(rws) == EmptyBag

\* ScanStorage._load_from_disk as the constructor runs it, on the table that
\* _init_database has just created: the SELECT returns no row, the loop body
\* does not run and no list is assigned to the fresh _results
LoadFromDisk(rws) == [s \in Slugs |-> <<>>]

----------------------------------------------------------------------------

\* the measurement before get_dir_size is called
PollAtRest ==
    /\ pc = "idle"
    /\ shutdown_event = FALSE
    /\ active_tasks = {}
    /\ waited = 0
    /\ current_poll_interval = PollInterval
    /\ no_progress_count = 0
    /\ last_progress = -1
    /\ last_total_size = -1
    /\ error_599_count = 0
    /\ failed_status_checks = 0
    /\ status_response = NoResponse
    /\ outcome = "none"
    /\ result = -1
    /\ cleanup_called = FALSE
    /\ stop_requested = FALSE
    /\ late_poll = FALSE
    /\ limit_polls = 0

\* get_dir_size called with its default poll_interval (explore_syno_api.py 667)
IntervalAtRest == min_poll_interval = PollInterval

\* no configuration file has been read
LoadAtRest ==
    /\ file = <<>>
    /\ registry = <<>>
    /\ config_warnings = <<>>
    /\ loaded = FALSE

\* SchedulerService.__init__ (scheduler.py 75-76): no configuration, no job
NoConfig == [loaded |-> FALSE, scans |-> <<>>]

NoReload == [success |-> FALSE, op |-> "none", added_scans |-> <<>>,
             updated_scans |-> <<>>, removed_scans |-> <<>>]

SchedAtRest ==
    /\ scheduler_config = NoConfig
    /\ job_ids = {}
    /\ jobs = {}
    /\ reload_result = NoReload

\* no request to the progress route
ProgressAtRest ==
    /\ history = <<>>
    /\ live = [total_size |-> 0, num_dir |-> 0, num_file |-> 0, path_status |-> <<>>]
    /\ progress_response = [present |-> FALSE, tenths |-> 0]
    /\ answered = FALSE

\* SynologyAPI.__init__ (explore_syno_api.py 375-376): no call yet
RateAtRest ==
    /\ rate_now = 0
    /\ last_api_call_time = 0
    /\ api_threads = <<>>
    /\ calls_started = 0
    /\ last_sent = -1
    /\ min_gap = 0

\* no polling loop
DetectAtRest == loop_state = <<>> /\ last_data = <<>>

AsyncAtRest == async_run = <<>> /\ wire = <<>> /\ client = <<>>

LaterAtRest == SchedAtRest /\ ProgressAtRest /\ RateAtRest /\ DetectAtRest /\ AsyncAtRest

MoreAtRest == LoadAtRest /\ LaterAtRest

\* the store after construction: _init_database drops and recreates the table
StoreAtRest ==
    /\ clock = 0
    /\ started = 0
    /\ runs = [s \in Slugs |-> <<>>]
    /\ results = [s \in Slugs |-> <<>>]
    /\ rows = EmptyBag
    /\ last_add = NoAdd
    /\ last_finish = [s \in Slugs |-> -1]

\* the scanner service before any request
ScanAtRest ==
    /\ now = 0
    /\ running_scans = [s \in Slugs |-> FALSE]
    /\ scan_status = [s \in Slugs |-> NoStatus]
    /\ scan_finished_at = [s \in Slugs |-> -1]
    /\ calls = [c \in Calls |-> FreeCall]
    /\ realFinish = [s \in Slugs |-> -1]

----------------------------------------------------------------------------
(* SpecScan: actions                                                        *)

ScanInit ==
    /\ config \in ConfigChoices
    /\ ScanAtRest
    /\ PollAtRest
    /\ IntervalAtRest
    /\ StoreAtRest
    /\ MoreAtRest

\* the clock advances
Tick ==
    /\ now < MaxTime
    /\ now' = now + 1
    /\ UNCHANGED <<moreVars, pollVars, intervalVars, storeVars, config, running_scans, scan_status, scan_finished_at, calls, realFinish>>

InFlight(c) == calls[c].pc \in {"login", "measure", "logout", "cleanup"}
IsFree(c) == calls[c].pc = "free"
FirstFree(c) == IsFree(c) /\ \A j \in Calls : IsFree(j) => c <= j
Enqueued(c, slug) == [calls EXCEPT ![c] = [FreeCall EXCEPT !.slug = slug, !.pc = "queued"]]

\* routes.py trigger_scan: POST /scans/{scan_name}/trigger
TriggerScan(ident) ==
    LET slug == GetScanConfig(ident)
    IN /\ slug # "none"
       /\ IF TriggerResponse(ident).triggered
          THEN \E c \in Calls : FirstFree(c) /\ calls' = Enqueued(c, slug)
          ELSE calls' = calls
       /\ scan_finished_at' = FinishedAtAfterQuery(ident)
       /\ scan_status' = StatusAfterQuery(ident)
       /\ UNCHANGED <<moreVars, pollVars, intervalVars, storeVars, now, config, running_scans, realFinish>>

\* scheduler.py _run_scan_job: the job of a slug fires (max_instances = 1 only
\* drops firings, so every firing the scheduler makes is one of these)
SchedulerFire(slug) ==
    /\ \E c \in Calls : FirstFree(c) /\ calls' = Enqueued(c, slug)
    /\ UNCHANGED <<moreVars, pollVars, intervalVars, storeVars, now, config, running_scans, scan_status, scan_finished_at, realFinish>>

\* run_scan up to its first await, the call being rejected (scanner.py 166-180)
EnterRejected(c) ==
    LET slug == calls[c].slug
    IN /\ calls[c].pc = "queued"
       /\ IsScanRunning(slug)
       /\ scan_finished_at' = FinishedAtAfterQuery(slug)
       /\ scan_status' = StatusAfterQuery(slug)
       /\ calls' = [calls EXCEPT ![c].pc = "returned",
                                 ![c].res = TransientResult,
                                 ![c].busy_on_arrival = running_scans[slug]]
       /\ UNCHANGED <<moreVars, pollVars, intervalVars, storeVars, now, config, running_scans, realFinish>>

\* run_scan up to its first await, the call starting work (scanner.py 166-225)
EnterStart(c) ==
    LET slug == calls[c].slug
    IN /\ calls[c].pc = "queued"
       /\ ~IsScanRunning(slug)
       /\ scan_finished_at' = [scan_finished_at EXCEPT ![slug] = -1]
       /\ running_scans' = [running_scans EXCEPT ![slug] = TRUE]
       /\ scan_status' = [scan_status EXCEPT ![slug] = InitialStatus]
       /\ realFinish' = [realFinish EXCEPT ![slug] = -1]
       /\ calls' = [calls EXCEPT ![c].pc = "login",
                                 ![c].res = TransientResult,
                                 ![c].busy_on_arrival = running_scans[slug],
                                 ![c].effects = {"status_reset"}]
       /\ UNCHANGED <<moreVars, pollVars, intervalVars, storeVars, now, config>>

\* the outer finally and what follows it (scanner.py 436-449)
Finish(c, res, persist) ==
    LET slug == calls[c].slug
    IN /\ running_scans' = RunningAfterFinally(slug)
       /\ scan_finished_at' = FinishedAtAfterFinally(slug)
       /\ realFinish' = [realFinish EXCEPT ![slug] = now]
       /\ calls' = [calls EXCEPT ![c].pc = "returned", ![c].res = res,
                                 ![c].added = IF persist THEN PersistFinal(@, res) ELSE @]

\* an exception reaches the outer handler (scanner.py 429-449)
Unexpected(c) ==
    /\ Finish(c, UnexpectedErrorResult(calls[c].res), TRUE)
    /\ UNCHANGED <<moreVars, pollVars, intervalVars, storeVars, now, config, scan_status>>

\* api.login returned False (scanner.py 230-238, 436-441)
LoginFailed(c) ==
    LET slug == calls[c].slug
        res == LoginFailedResult(calls[c].res)
    IN /\ calls[c].pc = "login"
       /\ running_scans' = RunningAfterFinally(slug)
       /\ scan_finished_at' = FinishedAtAfterFinally(slug)
       /\ realFinish' = [realFinish EXCEPT ![slug] = now]
       /\ calls' = [calls EXCEPT ![c].pc = "returned", ![c].res = res,
                                 ![c].added = AddResult(@, res),
                                 ![c].effects = @ \cup {"login"}]
       /\ UNCHANGED <<moreVars, pollVars, intervalVars, storeVars, now, config, scan_status>>

\* api.login raised (scanner.py 225, 429-449)
LoginRaised(c) ==
    /\ calls[c].pc = "login"
    /\ Unexpected(c)

\* api.login returned True: the paths are determined (scanner.py 240-262)
LoginOk(c) ==
    LET slug == calls[c].slug
        paths == DeterminePaths(config[slug])
        nopath == NoPathResult(calls[c].res)
    IN /\ calls[c].pc = "login"
       /\ IF paths = <<>>
          THEN /\ calls' = [calls EXCEPT ![c].pc = "logout", ![c].res = nopath,
                                         ![c].added = AddResult(@, nopath),
                                         ![c].pending_return = TRUE,
                                         ![c].effects = @ \cup {"login"}]
               /\ scan_status' = scan_status
          ELSE /\ calls' = [calls EXCEPT ![c].pc = "measure", ![c].paths = paths,
                                         ![c].idx = 1, ![c].items = <<>>,
                                         ![c].effects = @ \cup {"login"}]
               /\ scan_status' =
                    IF scan_status[slug].present
                    THEN [scan_status EXCEPT ![slug].expected_paths = MapNormalize(paths)]
                    ELSE scan_status
       /\ UNCHANGED <<moreVars, pollVars, intervalVars, storeVars, now, config, running_scans, scan_finished_at, realFinish>>

\* get_dir_size_async of the current path came back (scanner.py 299-419)
MeasureDone(c, out) ==
    LET slug == calls[c].slug
        path == calls[c].paths[calls[c].idx]
        items == Append(calls[c].items, ItemFor(path, out))
    IN /\ calls[c].pc = "measure"
       /\ IF LoopEnds(calls[c].idx, calls[c].paths, out)
          THEN /\ calls' = [calls EXCEPT ![c].pc = "logout", ![c].items = items,
                                         ![c].res = CompletedResult(calls[c].res, items),
                                         ![c].effects = @ \cup {"task"}]
               /\ scan_status' = IF scan_status[slug].present
                                 THEN [scan_status EXCEPT ![slug].finished = TRUE]
                                 ELSE scan_status
          ELSE /\ calls' = [calls EXCEPT ![c].idx = @ + 1, ![c].items = items,
                                         ![c].effects = @ \cup {"task"}]
               /\ scan_status' = scan_status
       /\ UNCHANGED <<moreVars, pollVars, intervalVars, storeVars, now, config, running_scans, scan_finished_at, realFinish>>

\* api.logout returned (scanner.py 424)
LogoutOk(c) ==
    /\ calls[c].pc = "logout"
    /\ calls' = [calls EXCEPT ![c].pc = "cleanup"]
    /\ UNCHANGED <<moreVars, pollVars, intervalVars, storeVars, now, config, running_scans, scan_status, scan_finished_at, realFinish>>

\* api.logout raised: it catches only the request exceptions (explore_syno_api.py 437-447)
LogoutRaised(c) ==
    /\ calls[c].pc = "logout"
    /\ Unexpected(c)

\* cleanup_tasks and close_async_session returned: the run ends (scanner.py 425-449)
CleanupDone(c) ==
    /\ calls[c].pc = "cleanup"
    /\ Finish(c, calls[c].res, ~calls[c].pending_return)
    /\ UNCHANGED <<moreVars, pollVars, intervalVars, storeVars, now, config, scan_status>>

\* the caller of run_scan takes the result (scheduler.py 262-287, routes.py 465)
Release(c) ==
    /\ calls[c].pc = "returned"
    /\ calls' = [calls EXCEPT ![c] = FreeCall]
    /\ UNCHANGED <<moreVars, pollVars, intervalVars, storeVars, now, config, running_scans, scan_status, scan_finished_at, realFinish>>

\* a status route asks is_scan_running(slug) (routes.py 99, 182); the answer is
\* IsScanRunning(slug), and the state changes only when the grace period is over
QueryRunning(slug) ==
    /\ GraceExpired(slug)
    /\ scan_finished_at' = FinishedAtAfterQuery(slug)
    /\ scan_status' = StatusAfterQuery(slug)
    /\ UNCHANGED <<moreVars, pollVars, intervalVars, storeVars, now, config, running_scans, calls, realFinish>>

ScanNext ==
    \/ Tick
    \/ \E ident \in Identifiers : TriggerScan(ident)
    \/ \E slug \in Slugs : SchedulerFire(slug)
    \/ \E c \in Calls : EnterRejected(c)
    \/ \E c \in Calls : EnterStart(c)
    \/ \E c \in Calls : LoginFailed(c)
    \/ \E c \in Calls : LoginRaised(c)
    \/ \E c \in Calls : LoginOk(c)
    \/ \E c \in Calls, out \in {"result", "none", "raise"} : MeasureDone(c, out)
    \/ \E c \in Calls : LogoutOk(c)
    \/ \E c \in Calls : LogoutRaised(c)
    \/ \E c \in Calls : CleanupDone(c)
    \/ \E c \in Calls : Release(c)
    \/ \E slug \in Slugs : QueryRunning(slug)

SpecScan == ScanInit /\ [][ScanNext]_vars

\* the steps of one run_scan call: the coroutine is resumed whenever the call
\* it awaits has returned, and each of these returns (the login and logout
\* requests carry a timeout, the measurement of a path ends at max_wait)
CallStep(c) ==
    \/ EnterRejected(c)
    \/ EnterStart(c)
    \/ LoginFailed(c)
    \/ LoginRaised(c)
    \/ LoginOk(c)
    \/ \E out \in {"result", "none", "raise"} : MeasureDone(c, out)
    \/ LogoutOk(c)
    \/ LogoutRaised(c)
    \/ CleanupDone(c)

\* SpecScan with every run_scan call resumed in the end
SpecScanFair == SpecScan /\ \A c \in Calls : WF_vars(CallStep(c))

----------------------------------------------------------------------------
(* SpecPoll: get_dir_size with a shutdown event, and the main thread that    *)
(* sets the event and cleans up. A step of the measuring thread runs from   *)
(* one blocking call (a sleep or an API request) to the next.               *)

loopVars == <<waited, current_poll_interval, no_progress_count, last_progress,
              last_total_size, error_599_count, failed_status_checks>>
mainVars == <<shutdown_event, cleanup_called, stop_requested>>
endVars == <<status_response, outcome, result>>
pollHistory == <<late_poll, limit_polls>>

PollInit ==
    /\ config = CHOOSE cfg \in ConfigChoices : TRUE
    /\ ScanAtRest
    /\ PollAtRest
    /\ IntervalAtRest
    /\ StoreAtRest
    /\ MoreAtRest

\* the function returns
Return(how, resp, res) ==
    /\ pc' = "done"
    /\ outcome' = how
    /\ status_response' = resp
    /\ result' = res

\* the thread goes on to its next blocking call
Goto(p) == pc' = p /\ UNCHANGED endVars

\* a DirSize status request leaves for the NAS
SendStatusPoll(w) ==
    /\ late_poll' = (late_poll \/ shutdown_event)
    /\ limit_polls' = IF w >= MaxWait THEN limit_polls + 1 ELSE limit_polls

\* if task_id in _active_tasks: _active_tasks.remove(task_id)
RemoveTask == active_tasks' = active_tasks \ {TaskId}

\* _check_and_handle_finished_task found the task finished
ReturnFinished(resp) == Return("finished", resp, ExtractTaskResult(resp)) /\ RemoveTask

\* check_shutdown_and_cleanup found the event set (dir_size_polling.py 38-54)
ReturnCancelled(resp) == Return("cancelled", resp, -1) /\ RemoveTask

\* handle_error_599 found the task finished: the removal is not guarded
\* (dir_size_polling.py 509, 545)
ReturnFinishedUnguarded(resp) ==
    IF TaskId \in active_tasks
    THEN ReturnFinished(resp)
    ELSE Return("error", resp, -1) /\ UNCHANGED active_tasks

\* _start_dir_size_task answered (explore_syno_api.py 692-716)
StartTask(ok) ==
    /\ pc = "idle"
    /\ IF ok
       THEN Goto("initial_sleep") /\ active_tasks' = active_tasks \cup {TaskId}
       ELSE Return("start_failed", NoResponse, -1) /\ UNCHANGED active_tasks
    /\ UNCHANGED <<moreVars, scanVars, intervalVars, storeVars, config, loopVars, mainVars, pollHistory>>

\* the first sleep of 3 s is over: the initial status request (explore_syno_api.py 716-726)
InitialSleepDone ==
    /\ pc = "initial_sleep"
    /\ Goto("initial_poll")
    /\ SendStatusPoll(waited)
    /\ UNCHANGED <<moreVars, scanVars, intervalVars, storeVars, config, loopVars, mainVars, active_tasks>>

\* handle_initial_status_check (dir_size_polling.py 99-173)
InitialPoll(resp) ==
    /\ pc = "initial_poll"
    /\ IF FinishedTask(resp)
       THEN ReturnFinished(resp) /\ UNCHANGED error_599_count
       ELSE /\ UNCHANGED active_tasks
            /\ Goto(IF resp.kind = "e160" THEN "retry_sleep" ELSE "loop_top")
            /\ error_599_count' = IF resp.kind = "e599" THEN 1 ELSE error_599_count
    /\ UNCHANGED <<moreVars, scanVars, intervalVars, storeVars, config, mainVars, pollHistory, waited, current_poll_interval,
                   no_progress_count, last_progress, last_total_size, failed_status_checks>>

\* the sleep of 2 s after code 160 is over: the retry request (dir_size_polling.py 132-143)
RetrySleepDone ==
    /\ pc = "retry_sleep"
    /\ Goto("retry_poll")
    /\ SendStatusPoll(waited)
    /\ UNCHANGED <<moreVars, scanVars, intervalVars, storeVars, config, loopVars, mainVars, active_tasks>>

\* the retry answered; whatever it says that is not "finished", get_dir_size
\* goes on to the loop (dir_size_polling.py 144-157, explore_syno_api.py 729-740)
RetryPoll(resp) ==
    /\ pc = "retry_poll"
    /\ IF FinishedTask(resp)
       THEN ReturnFinished(resp)
       ELSE /\ Goto("loop_top")
            /\ IF Succeeded(resp) THEN UNCHANGED active_tasks ELSE RemoveTask
    /\ UNCHANGED <<moreVars, scanVars, intervalVars, storeVars, config, loopVars, mainVars, pollHistory>>

\* the head of the loop: the loop condition, the shutdown check, the sleep
\* begins (dir_size_polling.py 614-637)
LoopTop ==
    /\ pc = "loop_top"
    /\ IF ~(waited < MaxWait)
       THEN Return("timeout", NoResponse, -1) /\ UNCHANGED active_tasks
       ELSE IF shutdown_event
            THEN ReturnCancelled(NoResponse)
            ELSE Goto("sleeping") /\ UNCHANGED active_tasks
    /\ UNCHANGED <<moreVars, scanVars, intervalVars, storeVars, config, loopVars, mainVars, pollHistory>>

\* the sleep is over: the shutdown check, the time accrued, the timeout check
\* with its final request, the shutdown check before the request, the request
\* (dir_size_polling.py 626-670)
SleepDone ==
    /\ pc = "sleeping"
    /\ IF shutdown_event
       THEN /\ ReturnCancelled(NoResponse)
            /\ UNCHANGED <<waited, pollHistory>>
       ELSE /\ waited' = waited + SleepTime
            /\ Goto(IF TimeoutReached(waited') THEN "final_poll" ELSE "poll")
            /\ SendStatusPoll(waited')
            /\ UNCHANGED active_tasks
    /\ UNCHANGED <<moreVars, scanVars, intervalVars, storeVars, config, mainVars, current_poll_interval, no_progress_count,
                   last_progress, last_total_size, error_599_count, failed_status_checks>>

\* the final request answered (dir_size_polling.py 190-208, 647-654, 798-802)
FinalPoll(resp) ==
    /\ pc = "final_poll"
    /\ IF FinishedTask(resp)
       THEN ReturnFinished(resp)
       ELSE Return("timeout", resp, -1) /\ UNCHANGED active_tasks
    /\ UNCHANGED <<moreVars, scanVars, intervalVars, storeVars, config, loopVars, mainVars, pollHistory>>

\* handle_error_599, up to its first blocking call (dir_size_polling.py 443-476)
After599(count) ==
    IF count = 2 THEN "bg2" ELSE IF count >= MaxError599 THEN "bg3" ELSE "loop_top"

\* a status request of the loop answered (dir_size_polling.py 664-784)
Poll(resp) ==
    /\ pc = "poll"
    /\ IF shutdown_event
       THEN ReturnCancelled(resp) /\ UNCHANGED loopVars
       ELSE IF FinishedTask(resp)
       THEN ReturnFinished(resp) /\ UNCHANGED loopVars
       ELSE IF resp.kind = "e160"
       THEN Return("lost", resp, -1) /\ RemoveTask /\ UNCHANGED loopVars
       ELSE
         /\ UNCHANGED <<active_tasks, waited>>
         /\ Goto(CASE resp.kind = "e599" -> After599(error_599_count + 1)
                   [] resp.kind = "none" /\ failed_status_checks + 1 >= MaxFailedChecks -> "bgf"
                   [] OTHER -> "loop_top")
         /\ failed_status_checks' = IF resp.kind = "none" THEN failed_status_checks + 1 ELSE 0
         /\ error_599_count' = CASE resp.kind = "e599" -> error_599_count + 1
                                 [] resp.kind = "none" -> error_599_count
                                 [] OTHER -> 0
         /\ IF Succeeded(resp)
            THEN /\ current_poll_interval' =
                       NextInterval(resp, last_progress, last_total_size,
                                    no_progress_count, current_poll_interval)
                 /\ no_progress_count' =
                       NextNoProgress(resp, last_progress, last_total_size, no_progress_count)
                 /\ last_progress' = resp.progress
                 /\ last_total_size' = NextLastSize(resp, last_total_size)
            ELSE UNCHANGED <<current_poll_interval, no_progress_count, last_progress,
                             last_total_size>>
    /\ UNCHANGED <<moreVars, scanVars, intervalVars, storeVars, config, mainVars, pollHistory>>

\* the task list asked after the second 599 answered (dir_size_polling.py 447-476)
Bg2(found) ==
    /\ pc = "bg2"
    /\ IF found \in {"running", "finished"}
       THEN Goto("bg2_sleep") /\ error_599_count' = 0
       ELSE Goto("loop_top") /\ UNCHANGED error_599_count
    /\ UNCHANGED <<moreVars, scanVars, intervalVars, storeVars, config, mainVars, pollHistory, active_tasks, waited,
                   current_poll_interval, no_progress_count, last_progress,
                   last_total_size, failed_status_checks>>

\* the extra sleep of 3 s is over (dir_size_polling.py 466)
Bg2SleepDone ==
    /\ pc = "bg2_sleep"
    /\ Goto("loop_top")
    /\ UNCHANGED <<moreVars, scanVars, intervalVars, storeVars, config, loopVars, mainVars, pollHistory, active_tasks>>

\* the task list asked after the third 599 answered (dir_size_polling.py 478-571)
Bg3(found) ==
    /\ pc = "bg3"
    /\ Goto(CASE found = "absent" -> "bg3_final"
              [] found = "finished" -> "bg3_fetch"
              [] OTHER -> "loop_top")
    /\ IF found = "failed" THEN RemoveTask ELSE UNCHANGED active_tasks
    /\ error_599_count' = IF found = "running" THEN 0 ELSE error_599_count
    /\ IF found \in {"absent", "finished"} THEN SendStatusPoll(waited)
                                          ELSE UNCHANGED pollHistory
    /\ UNCHANGED <<moreVars, scanVars, intervalVars, storeVars, config, mainVars, waited, current_poll_interval,
                   no_progress_count, last_progress, last_total_size, failed_status_checks>>

\* the last status request for a task missing from the list answered
\* (dir_size_polling.py 497-524)
Bg3Final(resp) ==
    /\ pc = "bg3_final"
    /\ IF FinishedByTruth(resp)
       THEN ReturnFinishedUnguarded(resp)
       ELSE Goto("loop_top") /\ RemoveTask
    /\ UNCHANGED <<moreVars, scanVars, intervalVars, storeVars, config, loopVars, mainVars, pollHistory>>

\* the status request for a task the list calls finished answered
\* (dir_size_polling.py 530-560, 571)
Bg3Fetch(resp) ==
    /\ pc = "bg3_fetch"
    /\ IF FinishedByTruth(resp)
       THEN ReturnFinishedUnguarded(resp)
       ELSE Goto("loop_top") /\ UNCHANGED active_tasks
    /\ UNCHANGED <<moreVars, scanVars, intervalVars, storeVars, config, loopVars, mainVars, pollHistory>>

\* BgFailed without the reset of the counter for a task that is listed
BgFailed_KeepCount(found) ==
    /\ pc = "bgf"
    /\ IF found \in {"running", "finished"}
       THEN /\ Goto("loop_top")
            /\ UNCHANGED failed_status_checks
            /\ UNCHANGED active_tasks
       ELSE /\ Return("lost", NoResponse, -1)
            /\ RemoveTask
            /\ UNCHANGED failed_status_checks
    /\ UNCHANGED <<moreVars, scanVars, intervalVars, storeVars, config, mainVars, pollHistory, waited, current_poll_interval,
                   no_progress_count, last_progress, last_total_size, error_599_count>>

\* the task list asked after five requests without an answer answered
\* (dir_size_polling.py 762-789)
BgFailed(found) ==
    /\ pc = "bgf"
    /\ IF found \in {"running", "finished"}
       THEN /\ Goto("loop_top")
            /\ failed_status_checks' = 0
            /\ UNCHANGED active_tasks
       ELSE /\ Return("lost", NoResponse, -1)
            /\ RemoveTask
            /\ UNCHANGED failed_status_checks
    /\ UNCHANGED <<moreVars, scanVars, intervalVars, storeVars, config, mainVars, pollHistory, waited, current_poll_interval,
                   no_progress_count, last_progress, last_total_size, error_599_count>>

\* the main thread sets the event (explore_syno_api.py 2928, 2944)
SetShutdown ==
    /\ ~shutdown_event
    /\ shutdown_event' = TRUE
    /\ UNCHANGED <<moreVars, scanVars, intervalVars, storeVars, config, pc, active_tasks, loopVars, endVars, pollHistory,
                   cleanup_called, stop_requested>>

\* the main thread then runs cleanup_tasks(ignore_errors=True): _stop_task for
\* every id still in the list (explore_syno_api.py 742-787, 868-881, 2935)
CleanupTasks(stopped) ==
    /\ shutdown_event
    /\ ~cleanup_called
    /\ cleanup_called' = TRUE
    /\ stop_requested' = (stop_requested \/ TaskId \in active_tasks)
    /\ IF stopped THEN RemoveTask ELSE UNCHANGED active_tasks
    /\ UNCHANGED <<moreVars, scanVars, intervalVars, storeVars, config, pc, shutdown_event, loopVars, endVars, pollHistory>>

PollNext ==
    \/ \E ok \in BOOLEAN : StartTask(ok)
    \/ InitialSleepDone
    \/ \E resp \in StatusResponses : InitialPoll(resp)
    \/ RetrySleepDone
    \/ \E resp \in StatusResponses : RetryPoll(resp)
    \/ LoopTop
    \/ SleepDone
    \/ \E resp \in StatusResponses : FinalPoll(resp)
    \/ \E resp \in StatusResponses : Poll(resp)
    \/ \E found \in ListResponses : Bg2(found)
    \/ Bg2SleepDone
    \/ \E found \in ListResponses : Bg3(found)
    \/ \E resp \in StatusResponses : Bg3Final(resp)
    \/ \E resp \in StatusResponses : Bg3Fetch(resp)
    \/ \E found \in ListResponses : BgFailed(found)
    \/ SetShutdown
    \/ \E stopped \in BOOLEAN : CleanupTasks(stopped)

SpecPoll == PollInit /\ [][PollNext]_vars

----------------------------------------------------------------------------
(* SpecInterval: update_polling_interval applied to the successful,         *)
(* unfinished answers of one polling loop, for every starting interval      *)

\* poll_task_status initialises its variables (dir_size_polling.py 594-611)
LoopVariablesInitialised ==
    /\ pc = "idle"
    /\ shutdown_event = FALSE
    /\ active_tasks = {}
    /\ waited = 0
    /\ current_poll_interval = min_poll_interval
    /\ no_progress_count = 0
    /\ last_progress = -1
    /\ last_total_size = -1
    /\ error_599_count = 0
    /\ failed_status_checks = 0
    /\ status_response = NoResponse
    /\ outcome = "none"
    /\ result = -1
    /\ cleanup_called = FALSE
    /\ stop_requested = FALSE
    /\ late_poll = FALSE
    /\ limit_polls = 0

IntervalInit ==
    /\ config = CHOOSE cfg \in ConfigChoices : TRUE
    /\ ScanAtRest
    /\ StoreAtRest
    /\ MoreAtRest
    /\ min_poll_interval \in 1..MaxStartInterval
    /\ LoopVariablesInitialised

\* process_status_response for a successful answer that is not finished
\* (dir_size_polling.py 286-422, 700-716)
ProcessStatusResponse(resp) ==
    /\ Succeeded(resp)
    /\ ~FinishedTask(resp)
    /\ no_progress_count < MaxNoProgress
    /\ current_poll_interval' =
          NextInterval(resp, last_progress, last_total_size,
                       no_progress_count, current_poll_interval)
    /\ no_progress_count' =
          NextNoProgress(resp, last_progress, last_total_size, no_progress_count)
    /\ last_progress' = resp.progress
    /\ last_total_size' = NextLastSize(resp, last_total_size)
    /\ UNCHANGED <<moreVars, scanVars, intervalVars, storeVars, pc, active_tasks, waited,
                   error_599_count, failed_status_checks, mainVars, endVars, pollHistory>>

IntervalNext == \E resp \in StatusResponses : ProcessStatusResponse(resp)

SpecInterval == IntervalInit /\ [][IntervalNext]_vars

----------------------------------------------------------------------------
(* SpecTerminate: the path measurement of SpecPoll on its own, without a    *)
(* shutdown, for several basic poll intervals.  Every sleep ends and every  *)
(* API request returns (requests are sent with a timeout), so the thread    *)
(* always takes its next step.                                              *)

\* the poll_interval argument of get_dir_size: shorter than the default, the
\* default, longer than the longest adaptive interval
StartIntervals == {1, PollInterval, MaxStartInterval}

TerminateInit ==
    /\ config = CHOOSE cfg \in ConfigChoices : TRUE
    /\ ScanAtRest
    /\ StoreAtRest
    /\ MoreAtRest
    /\ min_poll_interval \in StartIntervals
    /\ LoopVariablesInitialised

\* the steps of the measuring thread
ThreadNext ==
    \/ \E ok \in BOOLEAN : StartTask(ok)
    \/ InitialSleepDone
    \/ \E resp \in StatusResponses : InitialPoll(resp)
    \/ RetrySleepDone
    \/ \E resp \in StatusResponses : RetryPoll(resp)
    \/ LoopTop
    \/ SleepDone
    \/ \E resp \in StatusResponses : FinalPoll(resp)
    \/ \E resp \in StatusResponses : Poll(resp)
    \/ \E found \in ListResponses : Bg2(found)
    \/ Bg2SleepDone
    \/ \E found \in ListResponses : Bg3(found)
    \/ \E resp \in StatusResponses : Bg3Final(resp)
    \/ \E resp \in StatusResponses : Bg3Fetch(resp)
    \/ \E found \in ListResponses : BgFailed(found)

SpecTerminate == TerminateInit /\ [][ThreadNext]_vars /\ WF_vars(ThreadNext)

----------------------------------------------------------------------------
(* SpecAsync: get_dir_size_async beside get_dir_size                        *)
(* One call of each is under way for the same path and the same task; the   *)
(* NAS answers a request of the two with one answer that both read, first   *)
(* the synchronous call, then the asynchronous one.                         *)

\* the locals of get_dir_size_async before its start request
\* (explore_syno_api.py 1112-1148, 1207-1217)
AsyncIdle ==
    [pc |-> "idle", active_tasks |-> {}, waited |-> 0,
     current_poll_interval |-> PollInterval, no_progress_count |-> 0,
     last_progress |-> <<>>, error_599_count |-> 0, outcome |-> "none", result |-> -1]

\* the request a call is waiting on, from the place it is at
RequestAt(p) ==
    CASE p = "idle" -> "start"
      [] p \in {"initial_poll", "retry_poll", "poll", "final_poll", "bg3_final", "bg3_fetch"}
            -> "status"
      [] p \in {"bg2", "bg3", "bgf"} -> "list"
      [] p = "done" -> "done"
      [] OTHER -> "none"

SyncAt == RequestAt(pc)
AsyncAt == RequestAt(async_run.pc)

\* the answer on the wire has not been read by get_dir_size yet
SyncReads(kind) == wire # <<>> /\ wire.kind = kind /\ pc = wire.sync_pc

\* get_dir_size has read the answer, get_dir_size_async has not
AsyncReads(kind) == wire # <<>> /\ wire.kind = kind /\ pc # wire.sync_pc

\* no answer is being read
WireFree == wire = <<>>

AsyncReturn(how, res) == [async_run EXCEPT !.pc = "done", !.outcome = how, !.result = res]

\* the NAS answers the start request that both calls have sent
StartAnswered(ok) ==
    /\ WireFree
    /\ SyncAt = "start" /\ AsyncAt = "start"
    /\ wire' = [kind |-> "start", ok |-> ok, resp |-> NoResponse, sync_pc |-> pc]
    /\ UNCHANGED <<scanVars, pollVars, intervalVars, storeVars, loadVars, schedVars,
                   progressVars, rateVars, detectVars, async_run, client>>

\* the NAS answers the status request that both calls have sent
StatusAnswered(resp) ==
    /\ WireFree
    /\ SyncAt = "status" /\ AsyncAt = "status"
    /\ wire' = [kind |-> "status", ok |-> TRUE, resp |-> resp, sync_pc |-> pc]
    /\ UNCHANGED <<scanVars, pollVars, intervalVars, storeVars, loadVars, schedVars,
                   progressVars, rateVars, detectVars, async_run, client>>

\* the start request answered (explore_syno_api.py 1149-1170, 1393-1398)
AsyncStartTask ==
    /\ AsyncReads("start")
    /\ async_run.pc = "idle"
    /\ async_run' = IF wire.ok
                    THEN [async_run EXCEPT !.pc = "initial_sleep",
                                           !.active_tasks = @ \cup {TaskId}]
                    ELSE AsyncReturn("start_failed", -1)
    /\ wire' = <<>>
    /\ UNCHANGED <<scanVars, pollVars, intervalVars, storeVars, loadVars, schedVars,
                   progressVars, rateVars, detectVars, client>>

\* asyncio.sleep(3) is over: the initial status request (explore_syno_api.py 1172-1185)
AsyncInitialSleepDone ==
    /\ WireFree
    /\ async_run.pc = "initial_sleep"
    /\ async_run' = [async_run EXCEPT !.pc = "initial_poll"]
    /\ UNCHANGED <<scanVars, pollVars, intervalVars, storeVars, loadVars, schedVars,
                   progressVars, rateVars, detectVars, wire, client>>

\* the initial request answered: if initial_data.get("finished")
\* (explore_syno_api.py 1186-1205)
AsyncInitialPoll ==
    /\ AsyncReads("status")
    /\ async_run.pc = "initial_poll"
    /\ async_run' = IF FinishedByTruth(wire.resp)
                    THEN [AsyncReturn("finished", ExtractTaskResult(wire.resp))
                            EXCEPT !.active_tasks = @ \ {TaskId}]
                    ELSE [async_run EXCEPT !.pc = "loop_top"]
    /\ wire' = <<>>
    /\ UNCHANGED <<scanVars, pollVars, intervalVars, storeVars, loadVars, schedVars,
                   progressVars, rateVars, detectVars, client>>

\* while waited < max_wait, and the return after the loop
\* (explore_syno_api.py 1220, 1388-1392)
AsyncLoopTop ==
    /\ WireFree
    /\ async_run.pc = "loop_top"
    /\ async_run' = IF async_run.waited < MaxWait
                    THEN [async_run EXCEPT !.pc = "sleeping"]
                    ELSE [AsyncReturn("timeout", -1) EXCEPT !.active_tasks = @ \ {TaskId}]
    /\ UNCHANGED <<scanVars, pollVars, intervalVars, storeVars, loadVars, schedVars,
                   progressVars, rateVars, detectVars, wire, client>>

\* the sleep of one round (explore_syno_api.py 1221-1236)
AsyncSleepTime ==
    IF async_run.error_599_count > 0 THEN Error599Wait ELSE async_run.current_poll_interval

\* the sleep is over: the time accrued and the status request
\* (explore_syno_api.py 1221-1245)
AsyncSleepDone ==
    /\ WireFree
    /\ async_run.pc = "sleeping"
    /\ async_run' = [async_run EXCEPT !.pc = "poll", !.waited = @ + AsyncSleepTime]
    /\ UNCHANGED <<scanVars, pollVars, intervalVars, storeVars, loadVars, schedVars,
                   progressVars, rateVars, detectVars, wire, client>>

\* the progress test of the loop: both values must be known; the answers
\* carry no processed_num, which reads as -1 (explore_syno_api.py 1250-1256)
AsyncProgressSeen(resp) ==
    /\ async_run.last_progress # <<>>
    /\ resp.progress > async_run.last_progress[1]

\* a successful answer of the loop that is not finished (explore_syno_api.py 1246-1273)
AsyncAfterSuccess(resp) ==
    LET known == async_run.last_progress # <<>>
        count == IF ~known THEN async_run.no_progress_count
                 ELSE IF AsyncProgressSeen(resp) THEN 0
                 ELSE async_run.no_progress_count + 1
        interval ==
            IF ~known THEN async_run.current_poll_interval
            ELSE IF AsyncProgressSeen(resp)
            THEN (IF async_run.current_poll_interval > PollInterval
                  THEN PollInterval ELSE async_run.current_poll_interval)
            ELSE IF count >= NoProgressLimit /\ async_run.current_poll_interval < MaxPollInterval
                 THEN Min(async_run.current_poll_interval + IntervalStep, MaxPollInterval)
                 ELSE async_run.current_poll_interval
    IN  [async_run EXCEPT !.error_599_count = 0, !.no_progress_count = count,
                          !.current_poll_interval = interval,
                          !.last_progress = <<resp.progress>>]

\* a status request of the loop answered (explore_syno_api.py 1238-1380)
AsyncPoll ==
    /\ AsyncReads("status")
    /\ async_run.pc = "poll"
    /\ LET resp == wire.resp
           next == [AsyncAfterSuccess(resp) EXCEPT !.pc = "loop_top"]
       IN  async_run' =
              CASE FinishedByTruth(resp) ->
                     [next EXCEPT !.pc = "done", !.outcome = "finished",
                                  !.result = ExtractTaskResult(resp),
                                  !.active_tasks = @ \ {TaskId}]
                [] Succeeded(resp) /\ ~Truthy(resp.finished) -> next
                [] resp.kind = "e160" ->
                     [AsyncReturn("lost", -1) EXCEPT !.active_tasks = @ \ {TaskId}]
                [] resp.kind = "e599" /\ async_run.error_599_count + 1 >= MaxError599 ->
                     [AsyncReturn("error", -1) EXCEPT !.active_tasks = @ \ {TaskId},
                                                      !.error_599_count = @ + 1]
                [] resp.kind = "e599" ->
                     [async_run EXCEPT !.pc = "loop_top", !.error_599_count = @ + 1]
                [] OTHER -> [async_run EXCEPT !.pc = "loop_top"]
    /\ wire' = <<>>
    /\ UNCHANGED <<scanVars, pollVars, intervalVars, storeVars, loadVars, schedVars,
                   progressVars, rateVars, detectVars, client>>

AsyncInit ==
    /\ config = CHOOSE cfg \in ConfigChoices : TRUE
    /\ ScanAtRest
    /\ PollAtRest
    /\ IntervalAtRest
    /\ StoreAtRest
    /\ LoadAtRest
    /\ SchedAtRest
    /\ ProgressAtRest
    /\ RateAtRest
    /\ DetectAtRest
    /\ async_run = AsyncIdle
    /\ wire = <<>>
    /\ client = <<>>

AsyncNext ==
    \/ \E ok \in BOOLEAN : StartAnswered(ok)
    \/ \E resp \in StatusResponses : StatusAnswered(resp)
    \/ SyncReads("start") /\ StartTask(wire.ok)
    \/ WireFree /\ InitialSleepDone
    \/ SyncReads("status") /\ InitialPoll(wire.resp)
    \/ WireFree /\ RetrySleepDone
    \/ SyncReads("status") /\ RetryPoll(wire.resp)
    \/ WireFree /\ LoopTop
    \/ WireFree /\ SleepDone
    \/ SyncReads("status") /\ FinalPoll(wire.resp)
    \/ SyncReads("status") /\ Poll(wire.resp)
    \/ WireFree /\ \E found \in ListResponses : Bg2(found)
    \/ WireFree /\ Bg2SleepDone
    \/ WireFree /\ \E found \in ListResponses : Bg3(found)
    \/ SyncReads("status") /\ Bg3Final(wire.resp)
    \/ SyncReads("status") /\ Bg3Fetch(wire.resp)
    \/ WireFree /\ \E found \in ListResponses : BgFailed(found)
    \/ AsyncStartTask
    \/ AsyncInitialSleepDone
    \/ AsyncInitialPoll
    \/ AsyncLoopTop
    \/ AsyncSleepDone
    \/ AsyncPoll

SpecAsync == AsyncInit /\ [][AsyncNext]_vars

----------------------------------------------------------------------------
(* SpecFinalize: one path measurement of run_scan and the finally block     *)
(* that follows it (scanner.py 298-427): logout, cleanup_tasks, close.      *)

notAsyncVars == <<scanVars, pollVars, intervalVars, storeVars, loadVars, schedVars,
                  progressVars, rateVars, detectVars>>

\* the id of a task that the measurement of an earlier path left in the list
EarlierTaskId == "t0"

\* what the NAS may answer to a logout and to a DirSize stop request
LogoutAnswers == {"ok", "refused", "error"}
StopAnswers == {"ok", "e599", "eother", "none"}

\* the client after a successful login (scanner.py 225-238)
LoggedIn ==
    [pc |-> "measuring", sid |-> TRUE, left_active |-> {}, stop_requests |-> {},
     warned |-> {}]

FinalizeInit ==
    /\ config = CHOOSE cfg \in ConfigChoices : TRUE
    /\ ScanAtRest
    /\ PollAtRest
    /\ IntervalAtRest
    /\ StoreAtRest
    /\ LoadAtRest
    /\ SchedAtRest
    /\ ProgressAtRest
    /\ RateAtRest
    /\ DetectAtRest
    /\ \E left \in SUBSET {EarlierTaskId} :
          async_run = [AsyncIdle EXCEPT !.active_tasks = left]
    /\ wire = <<>>
    /\ client = LoggedIn

\* the NAS answers the request that get_dir_size_async has sent
RunAnswered(ok, resp) ==
    /\ WireFree
    /\ client.pc = "measuring"
    /\ AsyncAt \in {"start", "status"}
    /\ IF AsyncAt = "start" THEN resp = NoResponse ELSE ok
    /\ wire' = [kind |-> AsyncAt, ok |-> ok, resp |-> resp, sync_pc |-> "none"]
    /\ UNCHANGED <<notAsyncVars, async_run, client>>

\* a successful answer of the loop without the key "data":
\* status_response["data"] raises KeyError, the id stays in the list and
\* run_scan records the path as failed (explore_syno_api.py 1246-1248,
\* scanner.py 381-387)
AsyncPollRaises ==
    /\ WireFree
    /\ client.pc = "measuring"
    /\ async_run.pc = "poll"
    /\ async_run' = AsyncReturn("raised", -1)
    /\ UNCHANGED <<notAsyncVars, wire, client>>

\* SynologyAPI.logout, first call of the finally block (scanner.py 424):
\* the sid is dropped when the NAS confirms, kept when it refuses or the
\* request fails (explore_syno_api.py 423-449)
RunLogout(answer) ==
    /\ client.pc = "measuring"
    /\ async_run.pc = "done"
    /\ client' = [client EXCEPT !.pc = "cleanup",
                                !.sid = (answer # "ok"),
                                !.left_active = async_run.active_tasks]
    /\ UNCHANGED <<notAsyncVars, async_run, wire>>

\* _stop_task(task_id, ignore_errors=True) for one id: is a request sent, is
\* the id removed, is a warning printed (explore_syno_api.py 467-469, 742-787)
StopTask(sid, answer) ==
    [sent |-> sid, removed |-> sid /\ answer = "ok", warned |-> FALSE]

\* cleanup_tasks(ignore_errors=True), second call of the finally block, and
\* close_async_session (scanner.py 425-427, explore_syno_api.py 868-881)
RunCleanupTasks(answers) ==
    /\ client.pc = "cleanup"
    /\ LET ids == async_run.active_tasks
           stop(id) == StopTask(client.sid, answers[id])
       IN  /\ client' = [client EXCEPT
                           !.pc = "closed",
                           !.stop_requests = { id \in ids : stop(id).sent },
                           !.warned = { id \in ids : stop(id).warned }]
           /\ async_run' = [async_run EXCEPT
                              !.active_tasks = { id \in ids : ~stop(id).removed }]
    /\ UNCHANGED <<notAsyncVars, wire>>

FinalizeNext ==
    \/ \E ok \in BOOLEAN, resp \in StatusResponses \cup {NoResponse} : RunAnswered(ok, resp)
    \/ AsyncStartTask
    \/ AsyncInitialSleepDone
    \/ AsyncInitialPoll
    \/ AsyncLoopTop
    \/ AsyncSleepDone
    \/ AsyncPoll
    \/ AsyncPollRaises
    \/ \E answer \in LogoutAnswers : RunLogout(answer)
    \/ \E answers \in [{EarlierTaskId, TaskId} -> StopAnswers] : RunCleanupTasks(answers)

SpecFinalize == FinalizeInit /\ [][FinalizeNext]_vars

----------------------------------------------------------------------------
(* SpecStore: ScanStorage.add_result and the queries, driven by runs of      *)
(* run_scan that take their timestamps from the clock                       *)

StoreInit ==
    /\ config = StoreConfig
    /\ ScanAtRest
    /\ PollAtRest
    /\ IntervalAtRest
    /\ StoreAtRest
    /\ MoreAtRest

\* ScanStorage.add_result
StoreAddResult(slug, res) ==
    /\ results' = [results EXCEPT ![slug] = AppendResult(@, res)]
    /\ rows' = SaveToDisk(rows, slug, res, NasHost(slug))

\* the clock advances by one tick; ticks are told apart up to MaxFineClock
StoreTick ==
    /\ clock < MaxFineClock
    /\ clock' = clock + 1
    /\ last_add' = NoAdd
    /\ UNCHANGED <<moreVars, scanVars, pollVars, intervalVars, started, runs, results, rows, last_finish>>

\* the clock advances to the next multiple of the grace period, the times
\* that are told apart after MaxFineClock
StoreWait ==
    /\ (clock \div GraceTicks + 1) * GraceTicks <= MaxClock
    /\ clock' = (clock \div GraceTicks + 1) * GraceTicks
    /\ last_add' = NoAdd
    /\ UNCHANGED <<moreVars, scanVars, pollVars, intervalVars, started, runs, results, rows, last_finish>>

\* run_scan passes its running check and starts work (scanner.py 166-210)
BeginRun(slug) ==
    /\ started < MaxRuns
    /\ ~StoreScanRunning(slug)
    /\ started' = started + 1
    /\ runs' = [runs EXCEPT ![slug] = Append(@, [pc |-> "running", res |-> NoStoredResult])]
    /\ last_finish' = [last_finish EXCEPT ![slug] = -1]
    /\ last_add' = NoAdd
    /\ UNCHANGED <<moreVars, scanVars, pollVars, intervalVars, clock, results, rows>>

\* the login fails: the failed result is stamped and stored (scanner.py 230-238)
LoginFailedRun(slug, i) ==
    /\ i \in 1..Len(runs[slug])
    /\ runs[slug][i].pc = "running"
    /\ StoreAddResult(slug, [timestamp |-> clock, status |-> "failed",
                             error |-> "login failed", items |-> <<>>])
    /\ last_add' = slug
    /\ runs' = [runs EXCEPT ![slug] = RemoveAt(@, i)]
    /\ last_finish' = [last_finish EXCEPT ![slug] = clock]
    /\ UNCHANGED <<moreVars, scanVars, pollVars, intervalVars, clock, started>>

\* the path loop is over: the result gets its items, timestamp and status
\* (scanner.py 389-419)
FinalizeRun(slug, i, outs) ==
    LET paths == DeterminePaths(config[slug])
        items == [k \in 1..Len(paths) |-> MeasuredItem(paths[k], outs[k])]
    IN /\ i \in 1..Len(runs[slug])
       /\ runs[slug][i].pc = "running"
       /\ runs' = [runs EXCEPT ![slug][i] =
                      [pc |-> "finalized",
                       res |-> [timestamp |-> clock, status |-> FinalStatus(items),
                                error |-> IF SuccessCount(items) = 0
                                          THEN "all paths failed" ELSE "",
                                items |-> items]]]
       /\ last_add' = NoAdd
       /\ UNCHANGED <<moreVars, scanVars, pollVars, intervalVars, clock, started, results, rows, last_finish>>

\* logout and cleanup are over, or one of them raised: the result is stored
\* (scanner.py 421-449)
PersistRun(slug, i, raised) ==
    /\ i \in 1..Len(runs[slug])
    /\ runs[slug][i].pc = "finalized"
    /\ StoreAddResult(slug, IF raised
                            THEN [runs[slug][i].res EXCEPT !.status = "failed",
                                                           !.error = "unexpected error",
                                                           !.timestamp = clock]
                            ELSE runs[slug][i].res)
    /\ last_add' = slug
    /\ runs' = [runs EXCEPT ![slug] = RemoveAt(@, i)]
    /\ last_finish' = [last_finish EXCEPT ![slug] = clock]
    /\ UNCHANGED <<moreVars, scanVars, pollVars, intervalVars, clock, started>>

\* add_result is executed once more with the arguments of the last execution;
\* the result last added to a slug is the last of its list
RepeatAdd ==
    /\ last_add \in Slugs
    /\ StoreAddResult(last_add, GetLatestResult(last_add))
    /\ last_add' = NoAdd
    /\ UNCHANGED <<moreVars, scanVars, pollVars, intervalVars, clock, started, runs, last_finish>>

StoreNext ==
    \/ StoreTick
    \/ StoreWait
    \/ \E slug \in Slugs : BeginRun(slug)
    \/ \E slug \in Slugs, i \in 1..2 : LoginFailedRun(slug, i)
    \/ \E slug \in Slugs, i \in 1..2 :
          \E outs \in [1..Len(DeterminePaths(config[slug])) -> {"fail", "zero", "size"}] :
             FinalizeRun(slug, i, outs)
    \/ \E slug \in Slugs, i \in 1..2, raised \in BOOLEAN : PersistRun(slug, i, raised)
    \/ RepeatAdd

SpecStore == StoreInit /\ [][StoreNext]_vars

----------------------------------------------------------------------------
(* SpecRestart: SpecStore with restarts of the process on the same database *)
(* file                                                                     *)

\* the process ends and starts again: the runs in flight and the scanner's
\* dictionaries are gone, ScanStorage is constructed anew (storage.py 38, 62-72)
Restart ==
    /\ rows # EmptyBag
    /\ rows' = InitDatabase(rows)
    /\ results' = LoadFromDisk(InitDatabase(rows))
    /\ runs' = [s \in Slugs |-> <<>>]
    /\ last_finish' = [s \in Slugs |-> -1]
    /\ last_add' = NoAdd
    /\ UNCHANGED <<moreVars, scanVars, pollVars, intervalVars, clock, started>>

RestartNext == StoreNext \/ Restart

SpecRestart == StoreInit /\ [][RestartNext]_vars

----------------------------------------------------------------------------
(* SpecSave: SpecStore for descriptors of two paths each.  The first names  *)
(* the folder "/a" twice, as a path and as a share (the combination "shares *)
(* + paths" of _determine_paths); the second measures "/a" and "/b".        *)

SaveConfig ==
    [s \in Slugs |->
       IF s = "s1"
       THEN [paths |-> << <<"/", "a">> >>, shares |-> << <<"a">> >>, folders |-> <<>>]
       ELSE [paths |-> << <<"/", "a">>, <<"/", "b">> >>, shares |-> <<>>, folders |-> <<>>]]

SaveInit ==
    /\ config = SaveConfig
    /\ ScanAtRest
    /\ PollAtRest
    /\ IntervalAtRest
    /\ StoreAtRest
    /\ MoreAtRest

\* the steps of SpecStore; a measured path has one byte
SaveNext ==
    \/ StoreTick
    \/ StoreWait
    \/ \E slug \in Slugs : BeginRun(slug)
    \/ \E slug \in Slugs, i \in 1..2 : LoginFailedRun(slug, i)
    \/ \E slug \in Slugs, i \in 1..2 :
          \E outs \in [1..Len(DeterminePaths(config[slug])) -> {"fail", "size"}] :
             FinalizeRun(slug, i, outs)
    \/ \E slug \in Slugs, i \in 1..2, raised \in BOOLEAN : PersistRun(slug, i, raised)
    \/ RepeatAdd

SpecSave == SaveInit /\ [][SaveNext]_vars

----------------------------------------------------------------------------
(* SpecMaintain: SpecStore with the maintenance operations of ScanStorage   *)
(* (clear_results, delete_folder_results, cleanup_old_results).  An         *)
(* optional argument that is None (or empty) is "none", or <<>> for a path. *)

\* no scan_slug, no nas_host
NoArg == "none"

\* the conditions of delete_folder_results and cleanup_old_results that the
\* arguments given put into the WHERE clause (storage.py 576-588, 699-711)
MatchesFilter(r, nas_host, folder_path, scan_slug) ==
    /\ nas_host # NoArg => r.nas_host = nas_host
    /\ folder_path # <<>> => r.folder_path = NormalizeFolderPath(folder_path)
    /\ scan_slug # NoArg => r.scan_slug = scan_slug

\* ScanStorage.clear_results (storage.py 544-554)
ClearResults(scan_slug) ==
    /\ IF scan_slug = NoArg
       THEN /\ rows' = EmptyBag
            /\ results' = [s \in Slugs |-> <<>>]
       ELSE /\ rows' = SelectRows(rows, LAMBDA r : r.scan_slug # scan_slug)
            /\ results' = [results EXCEPT ![scan_slug] = <<>>]
    /\ last_add' = NoAdd
    /\ UNCHANGED <<moreVars, scanVars, pollVars, intervalVars, clock, started, runs, last_finish>>

\* the items that the refresh of the list in memory keeps (storage.py 603-607)
KeptItems(res, folder_path) ==
    [res EXCEPT !.items =
        SelectSeq(@, LAMBDA item :
                        \/ folder_path = <<>>
                        \/ NormalizeFolderPath(item.folder_name)
                              # NormalizeFolderPath(folder_path))]

RECURSIVE MapKeptItems(_, _)
MapKeptItems(lst, folder_path) ==
    IF lst = <<>> THEN <<>>
    ELSE <<KeptItems(Head(lst), folder_path)>> \o MapKeptItems(Tail(lst), folder_path)

\* the refresh of the list in memory of delete_folder_results: the items of
\* the folder go, then the results without items (storage.py 600-612)
RefreshAfterDelete(lst, folder_path) ==
    SelectSeq(MapKeptItems(lst, folder_path), LAMBDA res : res.items # <<>>)

\* ScanStorage.delete_folder_results; without any argument it returns at once
DeleteFolderResults(nas_host, folder_path, scan_slug) ==
    /\ nas_host # NoArg \/ folder_path # <<>> \/ scan_slug # NoArg
    /\ rows' = SelectRows(rows, LAMBDA r : ~MatchesFilter(r, nas_host, folder_path, scan_slug))
    /\ results' = IF scan_slug # NoArg
                  THEN [results EXCEPT ![scan_slug] = RefreshAfterDelete(@, folder_path)]
                  ELSE results
    /\ last_add' = NoAdd
    /\ UNCHANGED <<moreVars, scanVars, pollVars, intervalVars, clock, started, runs, last_finish>>

\* the timestamp of the result is datetime.utcnow(), without a time zone
\* (scanner.py 434); Python raises TypeError when it is compared with the
\* cutoff, which has one
IsNaive(res) == res.error = "unexpected error"

\* the refresh of the lists in memory of cleanup_old_results, slug by slug in
\* the order of the dictionary; it ends at the first list with a timestamp
\* that cannot be compared (storage.py 733-740)
RECURSIVE RefreshAfterCleanup(_, _, _, _)
RefreshAfterCleanup(res, order, scan_slug, cutoff) ==
    IF order = <<>> THEN res
    ELSE LET slug == Head(order)
         IN IF scan_slug = NoArg \/ slug = scan_slug
            THEN IF \E k \in 1..Len(res[slug]) : IsNaive(res[slug][k])
                 THEN res
                 ELSE RefreshAfterCleanup(
                         [res EXCEPT ![slug] = SelectSeq(@, LAMBDA r : r.timestamp >= cutoff)],
                         Tail(order), scan_slug, cutoff)
            ELSE RefreshAfterCleanup(res, Tail(order), scan_slug, cutoff)

\* the orders in which a dictionary can hold the slugs
SlugOrders ==
    { o \in [1..Cardinality(Slugs) -> Slugs] : \A i, j \in DOMAIN o : i # j => o[i] # o[j] }

\* ScanStorage.cleanup_old_results with days = 0 and dry_run = False: the
\* cutoff is the time of the call; nothing happens unless a row is older
\* (storage.py 682-740)
CleanupOldResults(nas_host, folder_path, scan_slug, order) ==
    LET cutoff == clock
        old(r) == r.timestamp < cutoff /\ MatchesFilter(r, nas_host, folder_path, scan_slug)
    IN /\ \E r \in DOMAIN rows : old(r)
       /\ rows' = SelectRows(rows, LAMBDA r : ~old(r))
       /\ results' = RefreshAfterCleanup(results, order, scan_slug, cutoff)
       /\ last_add' = NoAdd
       /\ UNCHANGED <<moreVars, scanVars, pollVars, intervalVars, clock, started, runs, last_finish>>

\* the folder of StoreConfig, as a caller names it
StoredFolder == StoreConfig["s1"].paths[1]

\* every row of the model is of the one NAS host, so that naming the host
\* next to a folder or a slug selects nothing else
MaintainNext ==
    \/ SaveNext
    \/ \E scan_slug \in Slugs \cup {NoArg} : ClearResults(scan_slug)
    \/ \E folder_path \in {<<>>, StoredFolder}, scan_slug \in Slugs \cup {NoArg} :
          DeleteFolderResults(NoArg, folder_path, scan_slug)
    \/ DeleteFolderResults("nas", <<>>, NoArg)
    \/ \E folder_path \in {<<>>, StoredFolder}, scan_slug \in Slugs \cup {NoArg} :
          \E order \in IF scan_slug = NoArg THEN SlugOrders ELSE {<<scan_slug>>} :
             CleanupOldResults(NoArg, folder_path, scan_slug, order)

SpecMaintain == StoreInit /\ [][MaintainNext]_vars

----------------------------------------------------------------------------
(* SpecLoad: load_config on a configuration file whose scans carry a slug   *)
(* and, some of them, a creation date                                       *)

\* the slugs written in the file: "x", "x-2" and "y", as base and suffixes
FileSlugs == { <<"x">>, <<"x", "2">>, <<"y">> }

\* a scan of the file; created_at 0 stands for a scan without creation date
FileScans == [slug : FileSlugs, created_at : 0..MaxCreated]

Files == UNION { [1..n -> FileScans] : n \in 1..MaxScans }

\* datetime.now at the time of loading, later than every date in the file
LoadTime == MaxCreated + 1

\* the while loop of ensure_unique_slugs for one slug
RECURSIVE FreeSlug(_, _, _, _)
FreeSlug(original_slug, slug, counter, seen) ==
    IF slug \in seen
    THEN FreeSlug(original_slug, original_slug \o <<ToString(counter + 1)>>, counter + 1, seen)
    ELSE slug

\* utils.slug.ensure_unique_slugs
RECURSIVE EnsureUniqueSlugs(_, _)
EnsureUniqueSlugs(slugs, seen) ==
    IF slugs = <<>> THEN <<>>
    ELSE LET slug == FreeSlug(Head(slugs), Head(slugs), 1, seen)
         IN <<slug>> \o EnsureUniqueSlugs(Tail(slugs), seen \cup {slug})

\* ConfigYAML.generate_ids, run by ConfigYAML(**config_data)
GenerateIds(scans) ==
    LET unique_slugs == EnsureUniqueSlugs([i \in 1..Len(scans) |-> scans[i].slug], {})
    IN [i \in 1..Len(scans) |->
          [slug |-> unique_slugs[i],
           created_at |-> IF scans[i].created_at = 0 THEN LoadTime ELSE scans[i].created_at]]

\* the keys of slug_groups in insertion order
RECURSIVE SlugOrder(_, _)
SlugOrder(scans, seen) ==
    IF scans = <<>> THEN <<>>
    ELSE IF Head(scans).slug \in seen THEN SlugOrder(Tail(scans), seen)
    ELSE <<Head(scans).slug>> \o SlugOrder(Tail(scans), seen \cup {Head(scans).slug})

\* sorted(scans, key = created_at): stable, the oldest first
RECURSIVE SortedByCreated(_)
SortedByCreated(scans) ==
    IF scans = <<>> THEN <<>>
    ELSE LET i == CHOOSE k \in 1..Len(scans) :
                     /\ \A j \in 1..Len(scans) : scans[k].created_at <= scans[j].created_at
                     /\ \A j \in 1..(k - 1) : scans[j].created_at > scans[k].created_at
         IN <<scans[i]>> \o SortedByCreated(RemoveAt(scans, i))

SlugGroup(scans, slug) == SortedByCreated(SelectSeq(scans, LAMBDA sc : sc.slug = slug))

\* the warnings of one group: one for each scan after the oldest
GroupWarnings(group) ==
    [k \in 1..(Len(group) - 1) |->
       [slug |-> group[1].slug, removed_created_at |-> group[k + 1].created_at,
        kept_created_at |-> group[1].created_at]]

RECURSIVE Flatten(_)
Flatten(seqs) == IF seqs = <<>> THEN <<>> ELSE Head(seqs) \o Flatten(Tail(seqs))

\* loader._remove_duplicate_slugs: the scans kept and the warnings recorded
RemoveDuplicateSlugs(scans) ==
    LET order == SlugOrder(scans, {})
    IN [scans |-> [k \in 1..Len(order) |-> SlugGroup(scans, order[k])[1]],
        warnings |-> Flatten([k \in 1..Len(order) |->
                                 GroupWarnings(SlugGroup(scans, order[k]))])]

LoadInit ==
    /\ config = CHOOSE cfg \in ConfigChoices : TRUE
    /\ ScanAtRest
    /\ PollAtRest
    /\ IntervalAtRest
    /\ StoreAtRest
    /\ LaterAtRest
    /\ file \in Files
    /\ registry = <<>>
    /\ config_warnings = <<>>
    /\ loaded = FALSE

\* loader.load_config
LoadConfig ==
    /\ ~loaded
    /\ loaded' = TRUE
    /\ registry' = RemoveDuplicateSlugs(GenerateIds(file)).scans
    /\ config_warnings' = RemoveDuplicateSlugs(GenerateIds(file)).warnings
    /\ UNCHANGED <<scanVars, pollVars, intervalVars, storeVars, laterVars, file>>

LoadNext == LoadConfig

SpecLoad == LoadInit /\ [][LoadNext]_vars

----------------------------------------------------------------------------
(* The scheduler service: load_and_schedule and reload_config              *)
(* (src/app/services/scheduler.py).  An interval is the string of the      *)
(* configuration file, kept as its sequence of characters.                 *)

Digits == {"0", "1"}

IntervalUnits == {"s", "m", "h", "d"}

\* str.lower on the characters that occur in the intervals below
LowerChar(ch) == IF ch = "M" THEN "m" ELSE ch

LowerAll(str) == [i \in 1..Len(str) |-> LowerChar(str[i])]

RECURSIVE LStrip(_)
LStrip(str) ==
    IF str # <<>> /\ Head(str) = " " THEN LStrip(Tail(str)) ELSE str

RECURSIVE RStrip(_)
RStrip(str) ==
    IF str # <<>> /\ str[Len(str)] = " "
    THEN RStrip(SubSeq(str, 1, Len(str) - 1))
    ELSE str

Strip(str) == RStrip(LStrip(str))

\* the pattern ^(\d+)([smhd])$
MatchesIntervalPattern(str) ==
    /\ Len(str) >= 2
    /\ \A i \in 1..(Len(str) - 1) : str[i] \in Digits
    /\ str[Len(str)] \in IntervalUnits

\* parse_interval_string: TRUE when it returns a timedelta, FALSE for None
ParseIntervalString(interval_str) ==
    MatchesIntervalPattern(Strip(LowerAll(interval_str)))

\* str.split(): the words between runs of blanks
RECURSIVE SplitWords(_, _)
SplitWords(str, word) ==
    IF str = <<>>
    THEN IF word = <<>> THEN <<>> ELSE <<word>>
    ELSE IF Head(str) = " "
         THEN IF word = <<>>
              THEN SplitWords(Tail(str), <<>>)
              ELSE <<word>> \o SplitWords(Tail(str), <<>>)
         ELSE SplitWords(Tail(str), Append(word, Head(str)))

\* the cron fields CronTrigger accepts, of those that occur below: "*" in
\* every position; a field with a letter makes the constructor raise
CronFieldAccepted(field) == field = <<"*">>

\* SchedulerService._create_trigger: the kind of trigger, "none" for None
CreateTrigger(interval_str) ==
    IF ParseIntervalString(interval_str)
    THEN "interval"
    ELSE LET cron_parts == SplitWords(interval_str, <<>>)
         IN  IF /\ Len(cron_parts) = 5
                /\ \A i \in 1..5 : CronFieldAccepted(cron_parts[i])
             THEN "cron"
             ELSE "none"

JobId(slug) == <<"scan", slug>>

\* SchedulerService.remove_scan_job on the pair st = [job_ids, jobs]
RemoveScanJob(st, scan_slug) ==
    IF scan_slug \notin st.job_ids
    THEN st
    ELSE [st EXCEPT !.job_ids = @ \ {scan_slug},
                    !.jobs = {j \in @ : j.id # JobId(scan_slug)}]

\* add_scan_job without the return on a missing trigger
AddScanJob_AnyTrigger(st, scan_config) ==
    LET trigger == CreateTrigger(scan_config.interval)
        cleared == IF scan_config.slug \in st.job_ids
                   THEN RemoveScanJob(st, scan_config.slug)
                   ELSE st
    IN  [cleared EXCEPT
           !.job_ids = @ \cup {scan_config.slug},
           !.jobs = {j \in @ : j.id # JobId(scan_config.slug)}
                    \cup {[id |-> JobId(scan_config.slug),
                           trigger |-> trigger,
                           args |-> scan_config]}]

\* SchedulerService.add_scan_job
AddScanJob(st, scan_config) ==
    LET trigger == CreateTrigger(scan_config.interval)
        cleared == IF scan_config.slug \in st.job_ids
                   THEN RemoveScanJob(st, scan_config.slug)
                   ELSE st
    IN  IF trigger = "none"
        THEN st
        ELSE [cleared EXCEPT
                !.job_ids = @ \cup {scan_config.slug},
                !.jobs = {j \in @ : j.id # JobId(scan_config.slug)}
                         \cup {[id |-> JobId(scan_config.slug),
                                trigger |-> trigger,
                                args |-> scan_config]}]

\* the scans of a configuration that carry the slug, in file order
ScansWithSlug(scans, slug) == SelectSeq(scans, LAMBDA sc : sc.slug = slug)

\* the comparison of reload_config, without nas.port
ConfigChanged_NoPort(old_scan_config, scan_config) ==
    \/ old_scan_config.shares # scan_config.shares
    \/ old_scan_config.folders # scan_config.folders
    \/ old_scan_config.paths # scan_config.paths
    \/ old_scan_config.interval # scan_config.interval
    \/ old_scan_config.nas.host # scan_config.nas.host

\* the comparison of reload_config (scheduler.py 376-381)
ConfigChanged(old_scan_config, scan_config) ==
    \/ old_scan_config.shares # scan_config.shares
    \/ old_scan_config.folders # scan_config.folders
    \/ old_scan_config.paths # scan_config.paths
    \/ old_scan_config.interval # scan_config.interval
    \/ old_scan_config.nas.host # scan_config.nas.host
    \/ old_scan_config.nas.port # scan_config.nas.port

\* one pass of the second loop of reload_config (scheduler.py 361-414);
\* st carries job_ids, jobs and the three report lists
ReloadScan(st, scan_config, old_scan_slugs, old_config) ==
    IF scan_config.enabled
    THEN IF scan_config.slug \in old_scan_slugs
         THEN LET found == IF old_config.loaded
                           THEN ScansWithSlug(old_config.scans, scan_config.slug)
                           ELSE <<>>
                  config_changed == IF found # <<>>
                                    THEN ConfigChanged(found[1], scan_config)
                                    ELSE TRUE
              IN  IF config_changed
                  THEN [AddScanJob(RemoveScanJob(st, scan_config.slug), scan_config)
                          EXCEPT !.updated_scans = Append(@, scan_config.name)]
                  ELSE st
         ELSE [AddScanJob(st, scan_config)
                 EXCEPT !.added_scans = Append(@, scan_config.name)]
    ELSE IF scan_config.slug \in old_scan_slugs
         THEN [RemoveScanJob(st, scan_config.slug)
                 EXCEPT !.removed_scans = Append(@, scan_config.name)]
         ELSE st

RECURSIVE ReloadScans(_, _, _, _)
ReloadScans(st, scans, old_scan_slugs, old_config) ==
    IF scans = <<>>
    THEN st
    ELSE ReloadScans(ReloadScan(st, Head(scans), old_scan_slugs, old_config),
                     Tail(scans), old_scan_slugs, old_config)

\* the first loop of reload_config (scheduler.py 351-355) over the old slugs
\* in the order the set hands them out
RECURSIVE RemoveGone(_, _, _)
RemoveGone(st, order, new_scan_slugs) ==
    IF order = <<>>
    THEN st
    ELSE LET scan_slug == Head(order)
             next == IF scan_slug \notin new_scan_slugs
                     THEN IF scan_slug \in st.job_ids
                          THEN [RemoveScanJob(st, scan_slug)
                                  EXCEPT !.removed_scans = Append(@, scan_slug)]
                          ELSE st
                     ELSE st
         IN  RemoveGone(next, Tail(order), new_scan_slugs)

\* the sequences that list every element of a set once
Orderings(S) ==
    { order \in [1..Cardinality(S) -> S] :
        \A i, j \in 1..Cardinality(S) : order[i] = order[j] => i = j }

\* the loop of load_and_schedule (scheduler.py 89-93)
RECURSIVE ScheduleScans(_, _)
ScheduleScans(st, scans) ==
    IF scans = <<>>
    THEN st
    ELSE ScheduleScans(IF Head(scans).enabled THEN AddScanJob(st, Head(scans)) ELSE st,
                       Tail(scans))

\* ---- the configurations a file can hold ----

Nas(host, port, username) == [host |-> host, port |-> port, username |-> username]

\* scan "a" with its first spelling of every field; a list that the file
\* leaves out (None) is the empty sequence, a port left out is -1
BaseScanA ==
    [slug |-> "a", name |-> "A", enabled |-> TRUE,
     interval |-> <<"1", "0", "m">>,
     shares |-> <<"s">>, folders |-> <<>>, paths |-> <<>>,
     nas |-> Nas("nas", -1, "u")]

\* one field of scan "a" spelled differently
VariantsA ==
    { BaseScanA,
      [BaseScanA EXCEPT !.shares = <<"t">>],
      [BaseScanA EXCEPT !.folders = <<"f">>],
      [BaseScanA EXCEPT !.paths = <<"/p">>],
      [BaseScanA EXCEPT !.nas.host = "nas2"],
      [BaseScanA EXCEPT !.nas.port = 5001],
      [BaseScanA EXCEPT !.nas.username = "v"],
      [BaseScanA EXCEPT !.name = "A2"] }

IntervalsA == { <<"1", "0", "m">>,
                <<"*", " ", "*", " ", "*", " ", "*", " ", "*">>,
                <<"1", "0", "x">> }

IntervalsB == { <<" ", "1", "M">>, <<"*", " ", "*">> }

ScansA ==
    { [[v EXCEPT !.interval = iv] EXCEPT !.enabled = en] :
        v \in VariantsA, iv \in IntervalsA, en \in BOOLEAN }

ScansB ==
    { [slug |-> "b", name |-> "B", enabled |-> en, interval |-> iv,
       shares |-> <<>>, folders |-> <<>>, paths |-> <<"/q">>,
       nas |-> Nas("nas", -1, "u")] : iv \in IntervalsB, en \in BOOLEAN }

\* the scan lists load_config can return: slugs are unique
SchedConfigs ==
    { <<>> } \cup { <<a>> : a \in ScansA } \cup { <<b>> : b \in ScansB }
             \cup { <<a, b>> : a \in ScansA, b \in ScansB }

JobState == [job_ids |-> job_ids, jobs |-> jobs]

\* ---- SpecReload ----

notSchedVars == <<scanVars, pollVars, intervalVars, storeVars, loadVars,
                  progressVars, rateVars, detectVars, asyncVars>>

ReloadInit ==
    /\ config = CHOOSE cfg \in ConfigChoices : TRUE
    /\ ScanAtRest
    /\ PollAtRest
    /\ IntervalAtRest
    /\ StoreAtRest
    /\ LoadAtRest
    /\ SchedAtRest
    /\ ProgressAtRest
    /\ RateAtRest
    /\ DetectAtRest
    /\ AsyncAtRest

\* SchedulerService.load_and_schedule, called once when the application starts
LoadAndSchedule(new_scans) ==
    /\ ~scheduler_config.loaded
    /\ LET st == ScheduleScans(JobState, new_scans)
       IN  /\ job_ids' = st.job_ids
           /\ jobs' = st.jobs
    /\ scheduler_config' = [loaded |-> TRUE, scans |-> new_scans]
    /\ reload_result' = [NoReload EXCEPT !.success = TRUE, !.op = "load"]
    /\ UNCHANGED notSchedVars

\* SchedulerService.reload_config when load_config returns new_scans
ReloadConfig(new_scans, order) ==
    LET old_scan_slugs == IF scheduler_config.loaded THEN job_ids ELSE {}
        new_scan_slugs == { new_scans[i].slug : i \in 1..Len(new_scans) }
        start == [job_ids |-> job_ids, jobs |-> jobs, added_scans |-> <<>>,
                  updated_scans |-> <<>>, removed_scans |-> <<>>]
        gone == RemoveGone(start, order, new_scan_slugs)
        st == ReloadScans(gone, new_scans, old_scan_slugs, scheduler_config)
    IN  /\ order \in Orderings(old_scan_slugs)
        /\ job_ids' = st.job_ids
        /\ jobs' = st.jobs
        /\ scheduler_config' = [loaded |-> TRUE, scans |-> new_scans]
        /\ reload_result' = [success |-> TRUE, op |-> "reload",
                             added_scans |-> st.added_scans,
                             updated_scans |-> st.updated_scans,
                             removed_scans |-> st.removed_scans]
        /\ UNCHANGED notSchedVars

\* SchedulerService.reload_config when load_config raises (scheduler.py 430-437)
ReloadConfigFailed ==
    /\ reload_result' = [NoReload EXCEPT !.op = "reload"]
    /\ UNCHANGED <<notSchedVars, scheduler_config, job_ids, jobs>>

ReloadNext ==
    \/ \E new_scans \in SchedConfigs : LoadAndSchedule(new_scans)
    \/ \E new_scans \in SchedConfigs :
          \E order \in Orderings(job_ids) : ReloadConfig(new_scans, order)
    \/ ReloadConfigFailed

SpecReload == ReloadInit /\ [][ReloadNext]_vars

----------------------------------------------------------------------------
(* The progress estimate of the route get_scan_progress                    *)
(* (src/app/api/routes.py 160-357).  Paths are sequences of characters,    *)
(* numbers that Python computes as floats are exact fractions <<n, d>>.    *)

RECURSIVE RStripSlash(_)
RStripSlash(p) ==
    IF p # <<>> /\ p[Len(p)] = "/"
    THEN RStripSlash(SubSeq(p, 1, Len(p) - 1))
    ELSE p

\* normalize_path (routes.py 205-207): p.strip().strip('/')
NormalizeForCompare(p) == RStripSlash(NormalizeFolderPath(Strip(p)))

\* x or 0 for an Optional number (-1: None)
OrZero(x) == IF x = -1 THEN 0 ELSE x

\* historical_by_path (routes.py 210-221): the entry of the last successful
\* item with the normalized path; <<>> when there is none
RECURSIVE HistoricalEntries(_, _)
HistoricalEntries(items, normalized_path) ==
    IF items = <<>>
    THEN <<>>
    ELSE LET item == items[Len(items)]
         IN  IF item.success /\ NormalizeForCompare(item.folder_name) = normalized_path
             THEN <<[size |-> OrZero(item.bytes), dirs |-> OrZero(item.num_dir),
                     files |-> OrZero(item.num_file)]>>
             ELSE HistoricalEntries(SubSeq(items, 1, Len(items) - 1), normalized_path)

\* the keys of historical_by_path
HistoricalPaths(items) ==
    { NormalizeForCompare(items[i].folder_name) :
        i \in { j \in 1..Len(items) : items[j].success } }

\* normalized_path_status (routes.py 224-235): the first status with the
\* normalized path unless a later one has a larger total_size
RECURSIVE NormalizedStatus(_, _, _)
NormalizedStatus(path_status, normalized_path, existing) ==
    IF path_status = <<>>
    THEN existing
    ELSE LET entry == Head(path_status)
             next == IF NormalizeForCompare(entry.path) # normalized_path
                     THEN existing
                     ELSE IF existing = <<>>
                          THEN <<entry.status>>
                          ELSE IF entry.status.total_size > existing[1].total_size
                               THEN <<entry.status>>
                               ELSE existing
         IN  NormalizedStatus(Tail(path_status), normalized_path, next)

\* the weight of a historical path (routes.py 274-281)
PathWeight(historical) ==
    IF historical.size > 0 THEN historical.size
    ELSE IF historical.dirs > 0 THEN historical.dirs * 1000
    ELSE IF historical.files > 0 THEN historical.files
    ELSE 1

\* (current / hist) * 100 without the cap at 100
RatioPercent_Uncapped(current, hist) ==
    IF current <= 0 THEN <<0, 1>> ELSE <<current * 100, hist>>

\* min(100, max(0, (current / hist) * 100)) for hist > 0
RatioPercent(current, hist) ==
    IF current >= hist THEN <<100, 1>>
    ELSE IF current <= 0 THEN <<0, 1>>
    ELSE <<current * 100, hist>>

\* the percentage of one metric of one path (routes.py 285-299)
MetricPercent(current, hist, finished) ==
    IF hist > 0 THEN RatioPercent(current, hist)
    ELSE IF finished THEN <<100, 1>> ELSE <<0, 1>>

RECURSIVE Gcd(_, _)
Gcd(a, b) == IF b = 0 THEN a ELSE Gcd(b, a % b)

\* a fraction n/d with n >= 0 and d > 0 in lowest terms
Reduced(n, d) == <<n \div Gcd(n, d), d \div Gcd(n, d)>>

FracAdd(x, y) == Reduced(x[1] * y[2] + y[1] * x[2], x[2] * y[2])

FracScale(x, k) == Reduced(x[1] * k, x[2])

FracDiv(x, k) == Reduced(x[1], x[2] * k)

\* the three percentages of one historical path, each times the weight
WeightedPath(items, path_status, normalized_path) ==
    LET historical == HistoricalEntries(items, normalized_path)[1]
        found == NormalizedStatus(path_status, normalized_path, <<>>)
        current == IF found = <<>>
                   THEN [total_size |-> 0, num_dir |-> 0, num_file |-> 0,
                         finished |-> FALSE]
                   ELSE found[1]
        weight == PathWeight(historical)
    IN  [size |-> FracScale(MetricPercent(current.total_size, historical.size,
                                          current.finished), weight),
         dirs |-> FracScale(MetricPercent(current.num_dir, historical.dirs,
                                          current.finished), weight),
         files |-> FracScale(MetricPercent(current.num_file, historical.files,
                                           current.finished), weight),
         weight |-> weight]

\* the sums of the loop over historical_by_path (routes.py 261-304)
RECURSIVE WeightedTotals(_, _, _)
WeightedTotals(items, path_status, paths) ==
    IF paths = {}
    THEN [size |-> <<0, 1>>, dirs |-> <<0, 1>>, files |-> <<0, 1>>, weight |-> 0]
    ELSE LET p == CHOOSE q \in paths : TRUE
             one == WeightedPath(items, path_status, p)
             rest == WeightedTotals(items, path_status, paths \ {p})
         IN  [size |-> FracAdd(one.size, rest.size),
              dirs |-> FracAdd(one.dirs, rest.dirs),
              files |-> FracAdd(one.files, rest.files),
              weight |-> one.weight + rest.weight]

RECURSIVE SumSeq(_)
SumSeq(nums) == IF nums = <<>> THEN 0 ELSE Head(nums) + SumSeq(Tail(nums))

SumOver(items, value(_)) == SumSeq([i \in 1..Len(items) |-> value(items[i])])

\* the aggregate percentage of one metric (routes.py 317-330)
AggregatePercent(current_total, historical_total) ==
    IF historical_total > 0 THEN RatioPercent(current_total, historical_total)
    ELSE <<0, 1>>

\* round(x, 1), in tenths
RoundToTenths(x) == (2 * 10 * x[1] + x[2]) \div (2 * x[2])

NoPercent == [present |-> FALSE, tenths |-> 0]

\* progress_percent of get_scan_progress (routes.py 196-332) from the live
\* status of the running scan and the result get_latest_completed_result gave
ProgressPercent(progress, last_completed) ==
    IF last_completed.status = "none" \/ last_completed.items = <<>>
    THEN NoPercent
    ELSE LET items == last_completed.items
             totals == WeightedTotals(items, progress.path_status,
                                      HistoricalPaths(items))
             historical_total_size ==
                 SumOver(items, LAMBDA it : IF it.success /\ it.bytes > 0
                                            THEN it.bytes ELSE 0)
             historical_total_dirs ==
                 SumOver(items, LAMBDA it : IF it.success THEN OrZero(it.num_dir) ELSE 0)
             historical_total_files ==
                 SumOver(items, LAMBDA it : IF it.success THEN OrZero(it.num_file) ELSE 0)
             size_percent ==
                 IF totals.weight > 0
                 THEN FracDiv(totals.size, totals.weight)
                 ELSE AggregatePercent(progress.total_size, historical_total_size)
             dirs_percent ==
                 IF totals.weight > 0
                 THEN FracDiv(totals.dirs, totals.weight)
                 ELSE AggregatePercent(progress.num_dir, historical_total_dirs)
             files_percent ==
                 IF totals.weight > 0
                 THEN FracDiv(totals.files, totals.weight)
                 ELSE AggregatePercent(progress.num_file, historical_total_files)
             weighted == FracDiv(FracAdd(FracAdd(FracScale(size_percent, 7),
                                                 FracScale(dirs_percent, 2)),
                                         files_percent), 10)
         IN  [present |-> TRUE, tenths |-> RoundToTenths(weighted)]

\* ---- the histories and live states of one scan ----

PathA == <<"/", "a">>

HistoryItemsA ==
    [folder_name : {PathA}, success : BOOLEAN, bytes : {-1, 0, 2},
     num_dir : {-1, 2}, num_file : {3}]

HistoryItemsB ==
    [folder_name : { <<"b", "/">>, <<"a", "/">> }, success : BOOLEAN,
     bytes : {0, 4}, num_dir : {0}, num_file : {0}]

HistoryResults ==
    [timestamp : {1}, status : {"completed", "failed"}, error : {""},
     items : { <<a>> : a \in HistoryItemsA }
             \cup { <<a, b>> : a \in HistoryItemsA, b \in HistoryItemsB }]

\* a later run that failed at login
FailedLater == [timestamp |-> 2, status |-> "failed", error |-> "login", items |-> <<>>]

Histories ==
    { <<>> } \cup { <<r>> : r \in HistoryResults }
             \cup { <<r, FailedLater>> : r \in HistoryResults }

LivePaths == { <<"/", "a">>, <<"a", "/">>, <<"b">> }

LiveStatuses ==
    { [total_size |-> 1, num_dir |-> 0, num_file |-> 1, finished |-> FALSE],
      [total_size |-> 5, num_dir |-> 5, num_file |-> 5, finished |-> TRUE],
      [total_size |-> 0, num_dir |-> 1, num_file |-> 0, finished |-> TRUE] }

LiveEntries == [path : LivePaths, status : LiveStatuses]

\* _scan_status[slug] of a running scan: path_status in insertion order
LiveStates ==
    [total_size : {5}, num_dir : {5}, num_file : {5},
     path_status : { <<>> } \cup { <<e>> : e \in LiveEntries }
                   \cup { pair \in LiveEntries \X LiveEntries :
                             pair[1].path # pair[2].path }]

\* ---- SpecProgress ----

notProgressVars == <<scanVars, pollVars, intervalVars, storeVars, loadVars,
                     schedVars, rateVars, detectVars, asyncVars>>

ProgressInit ==
    /\ config = CHOOSE cfg \in ConfigChoices : TRUE
    /\ ScanAtRest
    /\ PollAtRest
    /\ IntervalAtRest
    /\ StoreAtRest
    /\ LoadAtRest
    /\ SchedAtRest
    /\ RateAtRest
    /\ DetectAtRest
    /\ AsyncAtRest
    /\ history \in Histories
    /\ live \in LiveStates
    /\ progress_response = NoPercent
    /\ answered = FALSE

\* the route get_scan_progress for a scan that is running
GetScanProgress ==
    /\ ~answered
    /\ answered' = TRUE
    /\ progress_response' =
          ProgressPercent(live, LatestCompletedFrom(history, Len(history)))
    /\ UNCHANGED <<notProgressVars, history, live>>

ProgressNext == GetScanProgress

SpecProgress == ProgressInit /\ [][ProgressNext]_vars

----------------------------------------------------------------------------
(* The rate limiter of SynologyAPI._api_call and _async_api_call           *)
(* (src/explore_syno_api.py 451-582, 977-1110), used by the concurrent     *)
(* path measurements of one client.  Time runs in ticks of half a second.  *)

RateThreads == {1, 2}

\* rate_limit_delay, 1.0 s by default
RateLimitDelay == 2

RateTicksPerSecond == 2

\* the Retry-After headers a 429 or 503 answer can carry, in seconds
\* (-1: no header)
RetryAfterValues == {-1, 0, 1}

\* max_retries with retry_on_error (explore_syno_api.py 498)
MaxRetries == 2

IdleThread == [pc |-> "idle", wake |-> 0, attempt |-> 0]

\* the whole ticks of base_wait_time plus a jitter of 10 to 20 percent
\* (explore_syno_api.py 524-536)
RateLimitWait(retry_after, attempt) ==
    LET base_wait_time == IF retry_after = -1 THEN (attempt + 1) * 2 ELSE retry_after
    IN  (base_wait_time * RateTicksPerSecond * 11) \div 10

\* the whole ticks of the wait before the retry after a timeout (2 to 2.5 s)
\* or another request exception (1 to 1.3 s)
ErrorWait(kind) == IF kind = "timeout" THEN 2 * RateTicksPerSecond ELSE RateTicksPerSecond

\* ---- SpecRate ----

notRateVars == <<scanVars, pollVars, intervalVars, storeVars, loadVars,
                 schedVars, progressVars, detectVars, asyncVars>>

\* a logged-in client whose last call lies more than the delay back
RateInit ==
    /\ config = CHOOSE cfg \in ConfigChoices : TRUE
    /\ ScanAtRest
    /\ PollAtRest
    /\ IntervalAtRest
    /\ StoreAtRest
    /\ LoadAtRest
    /\ SchedAtRest
    /\ ProgressAtRest
    /\ DetectAtRest
    /\ AsyncAtRest
    /\ rate_now = RateLimitDelay
    /\ last_api_call_time = 0
    /\ api_threads = [t \in RateThreads |-> IdleThread]
    /\ calls_started = 0
    /\ last_sent = -1
    /\ min_gap = RateLimitDelay

RateTick ==
    /\ rate_now < MaxRateClock
    /\ rate_now' = rate_now + 1
    /\ UNCHANGED <<notRateVars, last_api_call_time, api_threads, calls_started,
                   last_sent, min_gap>>

\* the check of the rate limit (explore_syno_api.py 472-474)
ApiCallEnter(t) ==
    /\ api_threads[t].pc = "idle"
    /\ calls_started < MaxCalls
    /\ calls_started' = calls_started + 1
    /\ LET time_since_last == rate_now - last_api_call_time
       IN  api_threads' =
              [api_threads EXCEPT ![t] =
                 IF time_since_last < RateLimitDelay
                 THEN [pc |-> "sleep", wake |-> rate_now + (RateLimitDelay - time_since_last),
                       attempt |-> 0]
                 ELSE [pc |-> "stamp", wake |-> 0, attempt |-> 0]]
    /\ UNCHANGED <<notRateVars, rate_now, last_api_call_time, last_sent, min_gap>>

\* time.sleep or asyncio.sleep returns
ApiCallWake(t) ==
    /\ api_threads[t].pc = "sleep"
    /\ rate_now >= api_threads[t].wake
    /\ api_threads' = [api_threads EXCEPT ![t].pc = "stamp"]
    /\ UNCHANGED <<notRateVars, rate_now, last_api_call_time, calls_started,
                   last_sent, min_gap>>

\* self._last_api_call_time = time.time() (explore_syno_api.py 475)
ApiCallStamp(t) ==
    /\ api_threads[t].pc = "stamp"
    /\ last_api_call_time' = rate_now
    /\ api_threads' = [api_threads EXCEPT ![t].pc = "send"]
    /\ UNCHANGED <<notRateVars, rate_now, calls_started, last_sent, min_gap>>

\* session.get goes out (explore_syno_api.py 501)
ApiCallSend(t) ==
    /\ api_threads[t].pc = "send"
    /\ last_sent' = rate_now
    /\ min_gap' = IF last_sent # -1 /\ rate_now - last_sent < min_gap
                  THEN rate_now - last_sent
                  ELSE min_gap
    /\ api_threads' = [api_threads EXCEPT ![t].pc = "request"]
    /\ UNCHANGED <<notRateVars, rate_now, last_api_call_time, calls_started>>

\* the answer arrives and needs no retry, or the retries are used up
ApiCallReturn(t) ==
    /\ api_threads[t].pc = "request"
    /\ api_threads' = [api_threads EXCEPT ![t] = IdleThread]
    /\ UNCHANGED <<notRateVars, rate_now, last_api_call_time, calls_started,
                   last_sent, min_gap>>

\* the answer is a 429 or 503 error, a timeout or another request exception
\* and an attempt is left (explore_syno_api.py 522-536, 547-555, 566-574)
ApiCallRetry(t, kind, retry_after) ==
    /\ api_threads[t].pc = "request"
    /\ api_threads[t].attempt < MaxRetries - 1
    /\ api_threads' =
          [api_threads EXCEPT ![t] =
             [pc |-> "backoff",
              wake |-> rate_now + (IF kind = "rate_limit"
                                   THEN RateLimitWait(retry_after, @.attempt)
                                   ELSE ErrorWait(kind)),
              attempt |-> @.attempt + 1]]
    /\ UNCHANGED <<notRateVars, rate_now, last_api_call_time, calls_started,
                   last_sent, min_gap>>

\* the sleep before the retry returns: continue with the next attempt
ApiCallBackoffDone(t) ==
    /\ api_threads[t].pc = "backoff"
    /\ rate_now >= api_threads[t].wake
    /\ api_threads' = [api_threads EXCEPT ![t].pc = "send"]
    /\ UNCHANGED <<notRateVars, rate_now, last_api_call_time, calls_started,
                   last_sent, min_gap>>

RateNext ==
    \/ RateTick
    \/ \E t \in RateThreads :
          \/ ApiCallEnter(t)
          \/ ApiCallWake(t)
          \/ ApiCallStamp(t)
          \/ ApiCallSend(t)
          \/ ApiCallReturn(t)
          \/ \E retry_after \in RetryAfterValues : ApiCallRetry(t, "rate_limit", retry_after)
          \/ \E kind \in {"timeout", "error"} : ApiCallRetry(t, kind, -1)
          \/ ApiCallBackoffDone(t)

SpecRate == RateInit /\ [][RateNext]_vars

----------------------------------------------------------------------------
(* Progress detection with all the numbers of a status answer              *)
(* (dir_size_polling.py 210-284, 286-422).  An Optional number is <<>> for *)
(* None and <<x>> for x; progress is counted in tenths.                    *)

IsNone(v) == v = <<>>

\* progress_detected of update_polling_interval (dir_size_polling.py 241-262);
\* (last_progress or 0) is last_progress where it is not None
DetectProgress(data, last) ==
    LET by_progress ==
            IF ~IsNone(data.progress) /\ ~IsNone(last.last_progress)
            THEN data.progress[1] > last.last_progress[1]
            ELSE IF ~IsNone(last.last_progress)
                 THEN data.processed_num >= 0
                         /\ data.processed_num > last.last_progress[1]
                 ELSE FALSE
    IN  \/ by_progress
        \/ IF ~IsNone(last.last_num_dir) /\ data.num_dir > last.last_num_dir[1]
           THEN TRUE
           ELSE IF ~IsNone(last.last_num_file) /\ data.num_file > last.last_num_file[1]
                THEN TRUE
                ELSE ~IsNone(last.last_total_size)
                        /\ data.total_size > last.last_total_size[1]

\* update_polling_interval: interval, last progress and counter
UpdatePollingInterval(data, last, min_interval, max_interval) ==
    LET progress_detected == DetectProgress(data, last)
        count == IF progress_detected THEN 0 ELSE last.no_progress_count + 1
        interval ==
            IF progress_detected
            THEN (IF last.current_interval > min_interval
                  THEN min_interval ELSE last.current_interval)
            ELSE IF count >= NoProgressLimit /\ last.current_interval < max_interval
                 THEN Min(last.current_interval + IntervalStep, max_interval)
                 ELSE last.current_interval
    IN  [current_interval |-> interval,
         last_progress |-> IF ~IsNone(data.progress) THEN data.progress
                           ELSE <<data.processed_num>>,
         no_progress_count |-> count]

\* the last value of process_status_response (dir_size_polling.py 417-419)
KeepPositive(value, last_value) == IF value > 0 THEN <<value>> ELSE last_value

\* what a successful, unfinished status answer can carry: progress may be
\* None, processed_num is -1 when the NAS leaves it out
StatusData ==
    [progress : { <<>>, <<0>>, <<3>> }, processed_num : {-1, 1, 2},
     num_dir : {0, 1, 2}, num_file : {0, 1, 2}, total_size : {0, 1, 2}]

\* poll_task_status initialises its variables (dir_size_polling.py 594-611)
InitialLoopState ==
    [current_interval |-> PollInterval, last_progress |-> <<>>,
     no_progress_count |-> 0, last_num_dir |-> <<>>, last_num_file |-> <<>>,
     last_total_size |-> <<>>]

\* ---- SpecDetect ----

notDetectVars == <<scanVars, pollVars, intervalVars, storeVars, loadVars,
                   schedVars, progressVars, rateVars, asyncVars>>

DetectInit ==
    /\ config = CHOOSE cfg \in ConfigChoices : TRUE
    /\ ScanAtRest
    /\ PollAtRest
    /\ IntervalAtRest
    /\ StoreAtRest
    /\ LoadAtRest
    /\ SchedAtRest
    /\ ProgressAtRest
    /\ RateAtRest
    /\ AsyncAtRest
    /\ loop_state = InitialLoopState
    /\ last_data = <<>>

\* process_status_response for a successful answer that is not finished,
\* with every number the answer carries (dir_size_polling.py 286-422)
ProcessStatusData(data) ==
    /\ loop_state.no_progress_count < MaxNoProgress
    /\ LET upd == UpdatePollingInterval(data, loop_state, PollInterval, MaxPollInterval)
       IN  loop_state' =
              [current_interval |-> upd.current_interval,
               last_progress |-> upd.last_progress,
               no_progress_count |-> upd.no_progress_count,
               last_num_dir |-> KeepPositive(data.num_dir, loop_state.last_num_dir),
               last_num_file |-> KeepPositive(data.num_file, loop_state.last_num_file),
               last_total_size |-> KeepPositive(data.total_size, loop_state.last_total_size)]
    /\ last_data' = <<data>>
    /\ UNCHANGED notDetectVars

DetectNext == \E data \in StatusData : ProcessStatusData(data)

SpecDetect == DetectInit /\ [][DetectNext]_vars

----------------------------------------------------------------------------
(* Properties of SpecScan                                                   *)

SameSlugInFlight(c, d) ==
    c # d /\ InFlight(c) /\ InFlight(d) /\ calls[c].slug = calls[d].slug

RejectedWhileBusy(c) == calls[c].pc = "returned" /\ calls[c].busy_on_arrival

\* C1: for every slug at most one run_scan is doing scan work at any moment, and
\* a call that arrived while another run of its slug was in flight has returned
\* status "running" with no items, without a login, a dir-size task, a reset of
\* the live status or a stored result.
C1_OneRunPerSlug ==
    /\ \A c, d \in Calls : ~SameSlugInFlight(c, d)
    /\ \A c \in Calls : calls[c].busy_on_arrival => ~InFlight(c)
    /\ \A c \in Calls :
         RejectedWhileBusy(c) =>
            /\ calls[c].res.status = "running"
            /\ calls[c].res.items = <<>>
            /\ calls[c].effects = {}
            /\ calls[c].added = <<>>

\* a second call for a slug was rejected while the first one is still measuring
C1_Witness ==
    \E c, d \in Calls :
        /\ RejectedWhileBusy(c)
        /\ calls[d].pc = "measure"
        /\ calls[d].slug = calls[c].slug

StatusAgreesWithItems(res) ==
    /\ res.status \in {"completed", "failed"}
    /\ res.status = "completed" <=> \E i \in 1..Len(res.items) : res.items[i].success

\* C3: every result that run_scan returns or stores after doing work has status
\* "completed" if one of its items succeeded and "failed" if none did.
C3_StatusFollowsItems ==
    \A c \in Calls :
        /\ (calls[c].pc = "returned" /\ "status_reset" \in calls[c].effects)
              => StatusAgreesWithItems(calls[c].res)
        /\ \A i \in 1..Len(calls[c].added) : StatusAgreesWithItems(calls[c].added[i])

\* C4: no result handed to add_result, and so no stored row, has status
\* "running": every one is "completed" or "failed", and the transient result of
\* a rejected call is not stored.
C4_RunningNeverStored ==
    \A c \in Calls :
        /\ \A i \in 1..Len(calls[c].added) :
             calls[c].added[i].status \in {"completed", "failed"}
        /\ (calls[c].pc = "returned" /\ calls[c].res.status = "running")
              => calls[c].added = <<>>

\* a rejected call has returned its transient result while the first call of
\* the slug has stored its own
C4_Witness ==
    \E c, d \in Calls :
        /\ calls[c].pc = "returned" /\ calls[c].res.status = "running"
        /\ calls[d].pc = "returned" /\ calls[d].slug = calls[c].slug
        /\ Len(calls[d].added) = 1

\* the effective paths of a descriptor, by position: the explicit paths, then
\* every folder of every share, or the shares themselves when there is no folder
WithSlash(p) == IF p # <<>> /\ p[1] = "/" THEN p ELSE <<"/">> \o p
EffectiveCount(cfg) ==
    Len(cfg.paths) + (IF cfg.folders = <<>> THEN Len(cfg.shares)
                      ELSE Len(cfg.shares) * Len(cfg.folders))
EffectivePath(cfg, i) ==
    LET k == i - Len(cfg.paths) - 1
        n == Len(cfg.folders)
    IN IF i <= Len(cfg.paths) THEN WithSlash(cfg.paths[i])
       ELSE IF n = 0 THEN <<"/">> \o cfg.shares[k + 1]
       ELSE <<"/">> \o cfg.shares[(k \div n) + 1] \o <<"/">> \o cfg.folders[(k % n) + 1]

ItemWellFormed(item) == item.success \/ item.error # ""

\* C5: a run that reaches the path fan-out ends with exactly one item per
\* effective path, in expansion order, whichever paths fail; a failed path gives
\* an item with success = false and an error text, and while the loop runs the
\* items gathered so far are those of the paths already measured.
C5_OneItemPerPath ==
    \A c \in Calls :
        LET cfg == config[calls[c].slug]
            items == IF calls[c].pc = "measure" THEN calls[c].items ELSE calls[c].res.items
        IN "task" \in calls[c].effects =>
             /\ calls[c].pc # "measure" => Len(items) = EffectiveCount(cfg)
             /\ calls[c].pc = "measure" => Len(items) = calls[c].idx - 1
             /\ \A i \in 1..Len(items) :
                  /\ items[i].folder_name = EffectivePath(cfg, i)
                  /\ ItemWellFormed(items[i])

\* a run has returned two items, the first path failed and the second measured
C5_Witness ==
    \E c \in Calls :
        /\ calls[c].pc = "returned"
        /\ Len(calls[c].res.items) = 2
        /\ ~calls[c].res.items[1].success
        /\ calls[c].res.items[2].success

\* C6: trigger_scan for a scan that is running answers triggered = false and
\* enqueues no run, whether the request names the scan by slug or by name.
C6_NoTriggerWhileRunning ==
    [][\A ident \in Identifiers :
          (TriggerScan(ident) /\ RunningFlag(GetScanConfig(ident)))
             => (~TriggerResponse(ident).triggered /\ calls' = calls)]_vars

\* C7: after the run of a slug really finished at t, and until a new run of the
\* slug starts, is_scan_running answers true at every moment before t + 5 and
\* false from t + 5 on.
C7_GraceWindow ==
    \A s \in Slugs :
        realFinish[s] >= 0 => (IsScanRunning(s) <=> now - realFinish[s] < 5)

\* five seconds after the finish a query has answered false and dropped the entry
C7_Witness ==
    \E s \in Slugs :
        /\ realFinish[s] >= 0
        /\ now - realFinish[s] >= 5
        /\ scan_finished_at[s] = -1
        /\ ~IsScanRunning(s)

----------------------------------------------------------------------------
(* Properties of SpecPoll                                                   *)

\* a status request of the measurement is answered with resp
StatusAnswer(resp) ==
    \/ InitialPoll(resp)
    \/ RetryPoll(resp)
    \/ Poll(resp)
    \/ FinalPoll(resp)
    \/ Bg3Final(resp)
    \/ Bg3Fetch(resp)

\* C2: once a status request succeeds with a "finished" value that the finished
\* predicate accepts, the engine is Finished at once: it returns the numbers of
\* that response and sends no further request.
C2_FinishedPollEndsFinished ==
    [][\A resp \in StatusResponses :
          (StatusAnswer(resp) /\ FinishedTask(resp))
             => (pc' = "done" /\ outcome' = "finished"
                 /\ result' = resp.total_size)]_vars

\* C8: when waited reaches max_wait the engine sends exactly one final status
\* request; a finished answer to it is returned as the result, any other answer
\* ends the measurement as a timeout, whatever the shutdown event says, and no
\* further request is sent.
C8_OneFinalPoll ==
    /\ limit_polls <= 1
    /\ waited >= MaxWait =>
          /\ limit_polls = 1
          /\ pc \in {"final_poll", "done"}
          /\ pc = "done" =>
                IF FinishedTask(status_response)
                THEN outcome = "finished" /\ result = status_response.total_size
                ELSE outcome = "timeout" /\ result = -1

\* the final request was not answered "finished" while the shutdown event was
\* set: the measurement ended as a timeout
C8_Witness ==
    /\ pc = "done"
    /\ waited >= MaxWait
    /\ limit_polls = 1
    /\ shutdown_event
    /\ ~FinishedTask(status_response)
    /\ outcome = "timeout"

\* C9: once the shutdown event is set no further status request is sent for
\* the task.
C9_NoPollAfterCancel == ~late_poll

\* C10: a measurement that ended as cancelled has had a stop request sent to
\* the NAS for its task.
C10_CancelledStopsTask == outcome = "cancelled" => stop_requested

\* C11: when the initial poll answered code 160 and the retry sent 2 s later
\* does not succeed, the measurement ends there as a lost task: the task id
\* leaves the active list, the function returns a failure and no further
\* status request is sent.
C11_RetryFailureIsTerminal ==
    [][\A resp \in StatusResponses :
          (RetryPoll(resp) /\ ~Succeeded(resp))
             => (pc' = "done" /\ outcome' = "lost" /\ TaskId \notin active_tasks')]_vars

\* C12: when the third 599 in a row makes the engine ask the task list and the
\* list shows the task finished, the engine sends one status request; in a
\* measurement that nobody cancelled, a finished answer to it is returned as the
\* result of the measurement, and no answer to it ends the measurement as a
\* lost task.
C12_FinishedListFetchesResult ==
    [][/\ Bg3("finished") => pc' = "bg3_fetch"
       /\ \A resp \in StatusResponses :
             (Bg3Fetch(resp) /\ ~shutdown_event) =>
                /\ outcome' # "lost"
                /\ FinishedTask(resp) =>
                      (pc' = "done" /\ outcome' = "finished"
                       /\ result' = resp.total_size)]_vars

\* C15: at every place that decides whether the task is finished, an answer
\* ends the measurement as finished only if its "finished" value is boolean
\* true, one of the strings "true", "1", "yes" in any letter case, or the
\* number 1; and such a value is accepted whenever the event is not set and the
\* task id is still listed.
C15_OneFinishedPredicate ==
    [][\A resp \in StatusResponses :
          StatusAnswer(resp) =>
             /\ outcome' = "finished" => FinishedTask(resp)
             /\ (FinishedTask(resp) /\ ~shutdown_event /\ TaskId \in active_tasks)
                   => outcome' = "finished"]_vars

----------------------------------------------------------------------------
(* Properties of SpecInterval                                               *)

\* C13: at every point of a polling loop the current interval lies between the
\* interval the loop was started with and the maximum of 10 s, whatever the
\* starting interval and the answers are.
C13_IntervalWithinBounds ==
    /\ min_poll_interval <= current_poll_interval
    /\ current_poll_interval <= MaxPollInterval

\* the interval the claim gives after count polls without progress in a row
ExpectedInterval(count) ==
    IF min_poll_interval >= MaxPollInterval THEN min_poll_interval
    ELSE Min(min_poll_interval + 2 * (IF count > 2 THEN count - 2 ELSE 0),
             MaxPollInterval)

\* C14: in a run of successful unfinished polls without progress the interval
\* stays at the starting interval for the first two polls and rises by 2 s with
\* the third and every further one until it has reached the maximum, where it
\* stays; the first poll with progress puts the interval back to the starting
\* interval and the counter to 0.
C14_IntervalSchedule ==
    /\ [](current_poll_interval = ExpectedInterval(no_progress_count))
    /\ [][\A resp \in StatusResponses :
            ProcessStatusResponse(resp) =>
               IF ProgressDetected(resp, last_progress, last_total_size)
               THEN /\ current_poll_interval' = min_poll_interval
                    /\ no_progress_count' = 0
               ELSE /\ no_progress_count' = no_progress_count + 1
                    /\ current_poll_interval' =
                          ExpectedInterval(no_progress_count + 1)]_vars

\* started at 2 s, the interval has climbed 4, 6, 8 to 10 s and stayed there
C14_Witness ==
    /\ min_poll_interval = 2
    /\ no_progress_count = 7
    /\ current_poll_interval = 10

----------------------------------------------------------------------------
(* Properties of SpecStore                                                  *)

IsNormalizedPath(p) ==
    /\ p # <<>>
    /\ p[1] = "/"
    /\ p[Len(p)] # "/"
    /\ \A i \in 1..(Len(p) - 1) : ~(p[i] = "/" /\ p[i + 1] = "/")

\* C16: every folder path written to the history store, in a row of the table
\* or in an item of a result kept in memory, starts with "/", has no trailing
\* "/" and no repeated separator, so that "//a//b/" is stored as "/a/b".
C16_StoredPathsNormalized ==
    /\ \A r \in DOMAIN rows : r.folder_path # MarkerPath => IsNormalizedPath(r.folder_path)
    /\ \A s \in Slugs : \A k \in 1..Len(results[s]) :
          \A i \in 1..Len(results[s][k].items) :
             IsNormalizedPath(results[s][k].items[i].folder_name)

\* C17: executing add_result a second time with the same slug, NAS host and
\* result leaves the number of rows in the table as it was after the first
\* execution.
C17_RepeatedAddKeepsRowCount ==
    [][RepeatAdd => BagCardinality(rows') = BagCardinality(rows)]_vars

\* a result with a successful item was added twice in a row and its row is there
C17_Witness ==
    \E s \in Slugs :
       LET n == Len(results[s])
       IN /\ n >= 2
          /\ results[s][n - 1] = results[s][n]
          /\ \E r \in DOMAIN rows :
                r.scan_slug = s /\ r.success /\ r.timestamp = results[s][n].timestamp

\* add_result is executed for slug, for the first time or again
AddStep(slug) ==
    \/ \E i \in 1..2 : LoginFailedRun(slug, i)
    \/ \E i \in 1..2, raised \in BOOLEAN : PersistRun(slug, i, raised)
    \/ last_add = slug /\ RepeatAdd

\* the timestamps the table should hold for s after an add_result for slug: the
\* most recent MaxHistory of those it held and, for slug itself, the one added
RetainedTimestamps(s, slug) ==
    NewestTimestamps(SlugTimestamps(rows, s)
                        \cup (IF s = slug THEN {GetLatestResult(s)'.timestamp} ELSE {}),
                     MaxHistory)

\* C18: after every add_result the table holds, for every slug, rows of at most
\* MaxHistory distinct timestamps, and they are the most recent ones; and
\* get_all_results and get_results_since return at most MaxHistory results.
C18_HistoryBounded ==
    [][\A slug \in Slugs :
          AddStep(slug) =>
             \A s \in Slugs :
                /\ Cardinality(SlugTimestamps(rows', s)) <= MaxHistory
                /\ SlugTimestamps(rows', s) = RetainedTimestamps(s, slug)
                /\ Len(GetAllResults(s)') <= MaxHistory
                /\ \A since \in 0..MaxClock : Len(GetResultsSince(s, since)') <= MaxHistory]_vars

\* a result with status completed and a successful item of more than 0 bytes
Qualifies(res) ==
    /\ res.status = "completed"
    /\ \E i \in 1..Len(res.items) : res.items[i].success /\ res.items[i].bytes > 0

HasMeasuredItem(res) ==
    \E i \in 1..Len(res.items) : res.items[i].success /\ res.items[i].bytes > 0

\* C19: get_latest_completed_result returns the newest stored result of the slug
\* that is completed and has a successful item with a total size above 0, and
\* nothing when the slug has no such result.
C19_LatestCompleted ==
    \A s \in Slugs :
       LET found == GetLatestCompletedResult(s)
           good == { k \in 1..Len(results[s]) : Qualifies(results[s][k]) }
       IN IF good = {} THEN found = NoStoredResult
          ELSE /\ \E k \in good : found = results[s][k]
               /\ \A k \in good : results[s][k].timestamp <= found.timestamp

\* the newest result of a slug is failed although it has a measured item, and
\* the query returns the older, completed one
C19_Witness ==
    \E s \in Slugs :
       /\ Len(results[s]) = 2
       /\ results[s][2].status = "failed"
       /\ HasMeasuredItem(results[s][2])
       /\ Qualifies(results[s][1])
       /\ GetLatestCompletedResult(s) = results[s][1]

\* C20: the results of a slug are stored in non-decreasing order of their
\* timestamps, so that get_latest_result returns the stored result of the slug
\* with the greatest timestamp.
C20_PersistedInTimestampOrder ==
    \A s \in Slugs :
       /\ \A k \in 1..(Len(results[s]) - 1) :
             results[s][k].timestamp <= results[s][k + 1].timestamp
       /\ \A k \in 1..Len(results[s]) :
             results[s][k].timestamp <= GetLatestResult(s).timestamp

\* a slug has two results of different timestamps, the later one stored after
\* the clock had moved on from its timestamp
C20_Witness ==
    \E s \in Slugs :
       /\ Len(results[s]) = 2
       /\ results[s][1].timestamp < results[s][2].timestamp
       /\ GetLatestResult(s) = results[s][2]
       /\ last_add = s
       /\ clock > results[s][2].timestamp

----------------------------------------------------------------------------
(* Properties of SpecRestart                                                *)

\* the timestamps of the results a query returns
ResultTimestamps(lst) == { lst[k].timestamp : k \in 1..Len(lst) }

\* C21: after a restart on the same database file get_all_results returns, for
\* every slug, results of the timestamps that were stored before the restart,
\* and get_latest_result returns the one of the newest stored timestamp.
C21_ResultsSurviveRestart ==
    [][Restart =>
          \A s \in Slugs :
             /\ ResultTimestamps(GetAllResults(s)') = SlugTimestamps(rows, s)
             /\ SlugTimestamps(rows, s) # {} =>
                   GetLatestResult(s)'.timestamp
                      \in NewestTimestamps(SlugTimestamps(rows, s), 1)]_vars

----------------------------------------------------------------------------
(* Properties of SpecLoad                                                   *)

\* the slugs of the file and, for a slug, the creation dates of its scans
SlugsOfFile == { file[i].slug : i \in 1..Len(file) }
CreatedOf(scan) == IF scan.created_at = 0 THEN LoadTime ELSE scan.created_at
DatesOfSlug(slug) == { CreatedOf(file[i]) : i \in { j \in 1..Len(file) : file[j].slug = slug } }

\* C22: of the scans of the file that have the same slug the loaded registry
\* holds exactly one, the one with the oldest creation date; for every other one
\* a warning is recorded; the slugs of the registry are pairwise distinct.
C22_DuplicateSlugsDropped ==
    loaded =>
       /\ \A i, j \in 1..Len(registry) : registry[i].slug = registry[j].slug => i = j
       /\ Len(registry) = Cardinality(SlugsOfFile)
       /\ \A slug \in SlugsOfFile :
             \E i \in 1..Len(registry) :
                /\ registry[i].slug = slug
                /\ \A d \in DatesOfSlug(slug) : registry[i].created_at <= d
       /\ Len(config_warnings) = Len(file) - Cardinality(SlugsOfFile)

----------------------------------------------------------------------------
(* Properties of SpecReload                                                *)

\* C23: reload_config applied to the configuration that is already loaded
\* adds, updates and removes no job and returns empty added_scans,
\* updated_scans and removed_scans, whatever configuration is loaded.
C23_IdenticalReloadIsNoOp ==
    [][\A order \in Orderings(job_ids) :
          (scheduler_config.loaded /\ ReloadConfig(scheduler_config.scans, order)) =>
             /\ jobs' = jobs
             /\ job_ids' = job_ids
             /\ reload_result'.added_scans = <<>>
             /\ reload_result'.updated_scans = <<>>
             /\ reload_result'.removed_scans = <<>>]_vars

SchedSlugs == {"a", "b"}

\* the loaded configuration has an enabled scan with the slug whose interval
\* gives a trigger
EnabledWithTrigger(slug) ==
    \E i \in 1..Len(scheduler_config.scans) :
       /\ scheduler_config.scans[i].slug = slug
       /\ scheduler_config.scans[i].enabled
       /\ CreateTrigger(scheduler_config.scans[i].interval) # "none"

HasJob(slug) ==
    /\ slug \in job_ids
    /\ \E j \in jobs : j.id = JobId(slug)

\* C29: once a configuration is loaded, after the initial load and after
\* every reload, a job exists for a slug exactly when the current
\* configuration has an enabled scan with that slug whose interval is a valid
\* trigger; no job is left without an entry in _job_ids or the reverse.
C29_JobsFollowConfig ==
    scheduler_config.loaded =>
       \A slug \in SchedSlugs :
          /\ HasJob(slug) <=> EnabledWithTrigger(slug)
          /\ (slug \in job_ids) <=> (\E j \in jobs : j.id = JobId(slug))

\* a reload that created the job of "a" and removed the job of "b", which
\* the new configuration disables
C29_Witness ==
    /\ reload_result.success
    /\ reload_result.op = "reload"
    /\ reload_result.added_scans = <<"A">>
    /\ reload_result.removed_scans = <<"B">>
    /\ HasJob("a")
    /\ ~HasJob("b")
    /\ \E i \in 1..Len(scheduler_config.scans) :
          scheduler_config.scans[i].slug = "b" /\ ~scheduler_config.scans[i].enabled

JobOf(slug) == CHOOSE j \in jobs : j.id = JobId(slug)

ScanOf(scans, slug) == ScansWithSlug(scans, slug)[1]

\* one of shares, folders, paths, interval, nas.host, nas.port differs
ComparedFieldsDiffer(old, new) ==
    <<old.shares, old.folders, old.paths, old.interval, old.nas.host, old.nas.port>>
       # <<new.shares, new.folders, new.paths, new.interval, new.nas.host, new.nas.port>>

\* a step of reload_config
IsReloadStep == \E order \in Orderings(job_ids) : ReloadConfig(scheduler_config'.scans, order)

\* the slugs that have a job and that the new configuration keeps enabled
KeptSlugs ==
    { slug \in SchedSlugs :
        /\ scheduler_config.loaded
        /\ HasJob(slug)
        /\ ScansWithSlug(scheduler_config.scans, slug) # <<>>
        /\ ScansWithSlug(scheduler_config'.scans, slug) # <<>>
        /\ ScanOf(scheduler_config'.scans, slug).enabled }

InSeq(x, seq) == \E i \in 1..Len(seq) : seq[i] = x

\* C30 as stated: on reload_config, the job of a slug that stays enabled is
\* removed and re-created from the new descriptor exactly when one of shares,
\* folders, paths, interval, nas.host, nas.port differs between the old and
\* the new descriptor; when only other fields differ the job is left as it
\* was and the scan is not reported as updated.
C30_RecreatedExactlyOnFieldChange ==
    [][IsReloadStep =>
         \A slug \in KeptSlugs :
            LET old == ScanOf(scheduler_config.scans, slug)
                new == ScanOf(scheduler_config'.scans, slug)
            IN  IF ComparedFieldsDiffer(old, new)
                THEN /\ HasJob(slug)'
                     /\ JobOf(slug)'.args = new
                     /\ InSeq(new.name, reload_result'.updated_scans)
                ELSE /\ HasJob(slug)'
                     /\ JobOf(slug)' = JobOf(slug)
                     /\ ~InSeq(new.name, reload_result'.updated_scans)]_vars

\* C30 amended: when one of the six fields differs the job is removed and the
\* scan reported as updated, and the job is re-created from the new
\* descriptor if and only if the new interval is a valid trigger; when only
\* other fields differ the job is left as it was, not reported as updated.
C30_RemovedOnFieldChange ==
    [][IsReloadStep =>
         \A slug \in KeptSlugs :
            LET old == ScanOf(scheduler_config.scans, slug)
                new == ScanOf(scheduler_config'.scans, slug)
            IN  IF ComparedFieldsDiffer(old, new)
                THEN /\ InSeq(new.name, reload_result'.updated_scans)
                     /\ HasJob(slug)' <=> CreateTrigger(new.interval) # "none"
                     /\ HasJob(slug)' =>
                           /\ JobOf(slug)'.args = new
                           /\ JobOf(slug)' # JobOf(slug)
                ELSE /\ HasJob(slug)'
                     /\ JobOf(slug)' = JobOf(slug)
                     /\ ~InSeq(new.name, reload_result'.updated_scans)]_vars

\* after a reload: the job of "a" still carries the name the scan had when
\* the job was created (only the name changed since), and "b", whose interval
\* changed to one that gives no trigger, was reported as updated and has no job
C30_Witness ==
    /\ reload_result.success
    /\ reload_result.op = "reload"
    /\ reload_result.updated_scans = <<"B">>
    /\ ~HasJob("b")
    /\ HasJob("a")
    /\ ScansWithSlug(scheduler_config.scans, "a") # <<>>
    /\ JobOf("a").args.name # ScanOf(scheduler_config.scans, "a").name

----------------------------------------------------------------------------
(* Properties of SpecProgress                                              *)

\* the latest completed result with a measured size, as the route sees it
Baseline == LatestCompletedFrom(history, Len(history))

\* C24: for every live state and every history the progress estimate is
\* absent exactly when the history has no completed result with a nonzero
\* size, and otherwise a percentage between 0 and 100 (here in tenths), also
\* when the live counts exceed the baseline or a baseline number is zero.
C24_ProgressWithinRange ==
    answered =>
       IF \E i \in 1..Len(history) : IsCompletedWithSize(history[i])
       THEN /\ progress_response.present
            /\ progress_response.tenths >= 0
            /\ progress_response.tenths <= 1000
       ELSE ~progress_response.present

\* an answer strictly between 0 and 100 although one live path has passed
\* its baseline size and another baseline path has no size, from a history
\* whose newest result failed
C24_Witness ==
    /\ answered
    /\ progress_response.present
    /\ progress_response.tenths > 0
    /\ progress_response.tenths < 1000
    /\ Len(history) = 2
    /\ Len(Baseline.items) = 2
    /\ Baseline.items[1].success /\ Baseline.items[1].bytes = 2
    /\ Baseline.items[2].success /\ Baseline.items[2].bytes = 0
    /\ \E i \in 1..Len(live.path_status) :
          /\ NormalizeForCompare(live.path_status[i].path) = <<"a">>
          /\ live.path_status[i].status.total_size = 5

----------------------------------------------------------------------------
(* Properties of SpecRate                                                  *)

\* C25: any two requests that one client sends are at least the rate-limit
\* delay apart, however many path measurements use the client at a time.
C25_RequestsSpaced == min_gap >= RateLimitDelay

----------------------------------------------------------------------------
(* Properties of SpecPoll: lost tasks                                      *)

\* C26: when the third consecutive 599 has been counted and the task list
\* does not name the task, the answer to the one final status request decides:
\* finished, and its result is returned; anything else, and the measurement
\* ends as a lost task, the id leaves _active_tasks and no request follows.
C26_LostAfterThird599 ==
    [][\A resp \in StatusResponses :
          Bg3Final(resp) =>
             IF FinishedTask(resp)
             THEN /\ pc' = "done"
                  /\ outcome' = "finished"
                  /\ result' = ExtractTaskResult(resp)
             ELSE /\ pc' = "done"
                  /\ outcome' = "lost"
                  /\ TaskId \notin active_tasks']_vars

\* C27: the task list is consulted when five status requests of the polling
\* loop in a row got no answer, and only then; a task the list does not name ends the measurement
\* as lost with its id removed from _active_tasks, a task it names sets the
\* counter of failed requests back to 0 and the loop goes on.
C27_FiveSilentPolls ==
    /\ [](failed_status_checks <= MaxFailedChecks)
    /\ []((pc = "bgf") <=> (failed_status_checks = MaxFailedChecks /\ pc # "done"))
    /\ [][\A found \in ListResponses :
             BgFailed(found) =>
                CASE found = "absent" ->
                        /\ pc' = "done"
                        /\ outcome' = "lost"
                        /\ TaskId \notin active_tasks'
                  [] found \in {"running", "finished"} ->
                        /\ failed_status_checks' = 0
                        /\ pc' = "loop_top"
                        /\ active_tasks' = active_tasks
                  [] OTHER -> TRUE]_vars

\* five silent requests, then a list without the task: lost, id removed
C27_Witness ==
    /\ pc = "done"
    /\ outcome = "lost"
    /\ failed_status_checks = MaxFailedChecks
    /\ TaskId \notin active_tasks
    /\ ~shutdown_event

----------------------------------------------------------------------------
(* Properties of SpecDetect                                                *)

\* one of progress, processed_num, num_dir, num_file, total_size is strictly
\* greater in the answer than in the previous answer
SomeNumberIncreased(prev, data) ==
    \/ ~IsNone(prev.progress) /\ ~IsNone(data.progress)
          /\ data.progress[1] > prev.progress[1]
    \/ prev.processed_num >= 0 /\ data.processed_num > prev.processed_num
    \/ data.num_dir > prev.num_dir
    \/ data.num_file > prev.num_file
    \/ data.total_size > prev.total_size

\* C28: a successful poll in which at least one of progress, processed_num,
\* num_dir, num_file, total_size is strictly greater than at the previous
\* poll counts as progress, whatever the other values do: the interval goes
\* back to the minimum and the no-progress counter to 0.
C28_AnyIncreaseIsProgress ==
    [][(last_data # <<>> /\ last_data' # <<>>
           /\ ProcessStatusData(last_data'[1])
           /\ SomeNumberIncreased(last_data[1], last_data'[1])) =>
          /\ loop_state'.current_interval = PollInterval
          /\ loop_state'.no_progress_count = 0]_vars

----------------------------------------------------------------------------
(* Properties of SpecSave                                                   *)

\* the rows the table holds for a result of slug
RowsOfResult(rws, slug, res) ==
    SelectRows(rws, LAMBDA r : r.scan_slug = slug /\ r.timestamp = res.timestamp)

\* the folder paths of the successful items of a result, as the table spells them
SuccessfulFolders(res) ==
    { NormalizeFolderPath(res.items[i].folder_name) :
         i \in { k \in 1..Len(res.items) : res.items[k].success } }

\* the one marker row of a result without a successful item, with its status
\* and error, and no other row
OnlyMarkerWritten(rws, slug, res) ==
    LET written == RowsOfResult(rws, slug, res)
    IN /\ BagCardinality(written) = 1
       /\ \A r \in DOMAIN written :
             /\ r.folder_path = MarkerPath
             /\ r.status = res.status
             /\ r.scan_error = res.error

\* C31 as stated: add_result leaves one row for every successful item of the
\* result and no marker row when the result has a successful item, and
\* exactly one marker row with the status and error of the scan, and no item
\* row, when it has none.
C31_OneRowPerSuccessfulItem ==
    [][\A slug \in Slugs :
          AddStep(slug) =>
             LET res == GetLatestResult(slug)'
                 written == RowsOfResult(rows', slug, res)
             IN IF SuccessCount(res.items) > 0
                THEN /\ BagCardinality(written) = SuccessCount(res.items)
                     /\ \A r \in DOMAIN written : r.folder_path # MarkerPath
                ELSE OnlyMarkerWritten(rows', slug, res)]_vars

\* C31 (amended): add_result leaves exactly one row for every folder path that
\* a successful item of the result names - two successful items of one folder
\* share a row - and no marker row when the result has a successful item, and
\* exactly one marker row with the status and error of the scan, and no item
\* row, when it has none.
C31_OneRowPerSuccessfulFolder ==
    [][\A slug \in Slugs :
          AddStep(slug) =>
             LET res == GetLatestResult(slug)'
                 written == RowsOfResult(rows', slug, res)
             IN IF SuccessCount(res.items) > 0
                THEN /\ { r.folder_path : r \in DOMAIN written } = SuccessfulFolders(res)
                     /\ BagCardinality(written) = Cardinality(SuccessfulFolders(res))
                ELSE OnlyMarkerWritten(rows', slug, res)]_vars

\* a result with two successful items of one folder has just been added
C31_Witness ==
    \E s \in Slugs :
       /\ last_add = s
       /\ SuccessCount(GetLatestResult(s).items) = 2
       /\ Cardinality(SuccessfulFolders(GetLatestResult(s))) = 1
       /\ BagCardinality(RowsOfResult(rows, s, GetLatestResult(s))) = 1

----------------------------------------------------------------------------
(* Properties of SpecStore: keys                                            *)

\* the key of a row: nas_host, folder_path and timestamp
RowKey(r) == <<r.nas_host, r.folder_path, r.timestamp>>

\* the keys of the rows that add_result writes for a result
WrittenKeys(slug, res) ==
    IF SuccessCount(res.items) > 0
    THEN { <<NasHost(slug), f, res.timestamp>> : f \in SuccessfulFolders(res) }
    ELSE { <<NasHost(slug), MarkerPath, res.timestamp>> }

\* the DELETE of the retention applies to the row: it belongs to the slug and
\* its timestamp is not among the newest MaxHistory of the slug
RetentionApplies(r, slug, res) ==
    /\ r.scan_slug = slug
    /\ r.timestamp \notin NewestTimestamps(SlugTimestamps(rows, slug) \cup {res.timestamp},
                                           MaxHistory)

\* C36: an add_result never deletes or replaces a row whose key (nas_host,
\* folder_path, timestamp) differs from the keys it writes, in particular not
\* a row of another slug that measures the same host and path; only the
\* retention of the slug's own history removes rows of other keys.
C36_OtherKeysSurvive ==
    [][\A slug \in Slugs :
          AddStep(slug) =>
             LET res == GetLatestResult(slug)'
             IN \A r \in DOMAIN rows :
                   (RowKey(r) \notin WrittenKeys(slug, res)
                       /\ ~RetentionApplies(r, slug, res))
                      => r \in DOMAIN rows']_vars

----------------------------------------------------------------------------
(* Properties of SpecMaintain                                               *)

\* C35: after any sequence of add_result, cleanup_old_results,
\* delete_folder_results and clear_results the list in memory agrees with
\* the table: for every slug the timestamps of the results in memory are
\* the distinct timestamps of the rows stored for the slug.
C35_MemoryAgreesWithTable ==
    \A s \in Slugs : ResultTimestamps(results[s]) = SlugTimestamps(rows, s)

----------------------------------------------------------------------------
(* Properties of SpecScan: persistence                                      *)

\* the call passed the running check and started work
StartedWork(c) == "status_reset" \in calls[c].effects

\* C33: every run_scan call that starts work (does not return the transient
\* "running" result) calls add_result exactly once before it returns, on
\* every exit path: login failure, normal completion, unexpected exception;
\* and a call that is rejected calls it not at all.
C33_AddResultExactlyOnce ==
    \A c \in Calls :
       /\ Len(calls[c].added) <= 1
       /\ calls[c].pc = "returned" =>
             Len(calls[c].added) = (IF StartedWork(c) THEN 1 ELSE 0)

\* a run whose logout raised after the measurement has returned, and its one
\* result, failed with its items, is stored
C33_Witness ==
    \E c \in Calls :
       /\ calls[c].pc = "returned"
       /\ StartedWork(c)
       /\ calls[c].res.error = "unexpected error"
       /\ calls[c].res.items # <<>>
       /\ calls[c].added = <<calls[c].res>>

----------------------------------------------------------------------------
(* Properties of SpecPoll: the list of active tasks                         *)

\* handle_error_599 executes _active_tasks.remove(task_id) without the
\* membership test (dir_size_polling.py 509, 545)
UnguardedRemoval ==
    \E resp \in StatusResponses :
       /\ FinishedByTruth(resp)
       /\ Bg3Final(resp) \/ Bg3Fetch(resp)

\* C37: no execution of the polling engine removes a task id from the list of
\* active tasks when the id is not in it (the removal would raise out of the
\* measurement): a removal without a membership test only happens while the
\* id is in the list.
C37_RemovedOnlyWhenPresent ==
    [][UnguardedRemoval => TaskId \in active_tasks]_vars

----------------------------------------------------------------------------
(* Properties of SpecTerminate                                              *)

\* C39: every path measurement terminates, whatever the NAS answers and for
\* every positive poll interval: every round of the loop adds a positive
\* amount to waited, no round begins once waited has reached max_wait, and
\* the measurement reaches a terminal outcome.
C39_MeasurementTerminates ==
    /\ [][SleepDone => waited' > waited]_vars
    /\ [](pc \in {"sleeping", "poll"} => waited < MaxWait)
    /\ <>(pc = "done")

\* a measurement with a poll interval of 1 s has run into the timeout
C39_Witness ==
    /\ pc = "done"
    /\ outcome = "timeout"
    /\ min_poll_interval = 1
    /\ waited >= MaxWait

----------------------------------------------------------------------------
(* Properties of SpecAsync                                                  *)

\* both calls have returned the same thing: the numbers of the finished
\* task, or nothing
SameOutcome ==
    /\ (outcome = "finished") = (async_run.outcome = "finished")
    /\ result = async_run.result

\* C34: whatever the NAS answers, get_dir_size_async sends the requests that
\* get_dir_size sends, in the same order, and returns what get_dir_size
\* returns: get_dir_size never asks for the list of background tasks, a
\* request get_dir_size_async does not have; once both have read the same
\* answers, both wait on a status request or both have returned; and when
\* both have returned, both give the same numbers or both give nothing.
C34_SameRequestsAndOutcome ==
    /\ SyncAt # "list"
    /\ (WireFree /\ SyncAt \in {"status", "done"} /\ AsyncAt \in {"status", "done"})
          => SyncAt = AsyncAt
    /\ (SyncAt = "done" /\ AsyncAt = "done") => SameOutcome

----------------------------------------------------------------------------
(* Properties of SpecReload: the descriptor a scheduled run uses            *)

\* the scan_config that _run_scan_job hands to run_scan when the job of the
\* slug fires: the argument stored with the job (scheduler.py 188-195, 250-262)
FiredDescriptor(slug) == JobOf(slug).args

\* C38: after a successful reload every job fires with the descriptor that
\* the loaded configuration holds for its slug; no job keeps field values of
\* an older configuration.
C38_JobsFireWithLoadedDescriptor ==
    (reload_result.success /\ reload_result.op = "reload") =>
       \A slug \in SchedSlugs :
          HasJob(slug) => FiredDescriptor(slug) = ScanOf(scheduler_config.scans, slug)

----------------------------------------------------------------------------
(* Properties of SpecFinalize                                               *)

\* C32: when the finally block of a run is through, a stop request has gone
\* to the NAS for every task id that was in the client's list when the block
\* began, and no stop request was reported as failed (an answer of code 599
\* in particular is passed over).
C32_StopSentForEveryActiveTask ==
    client.pc = "closed" =>
       /\ client.left_active \subseteq client.stop_requests
       /\ client.warned = {}

----------------------------------------------------------------------------
(* Properties of SpecScanFair                                               *)

\* the run of the slug is over and the grace period has passed since
GraceOver(slug) ==
    /\ ~running_scans[slug]
    /\ realFinish[slug] >= 0
    /\ now - realFinish[slug] >= GracePeriod

\* the call has set the running flag and has not returned yet
HoldsFlag(c) == InFlight(c)

\* the call has just left through the outer finally: the flag of its slug is
\* cleared and the grace period of the slug begins now
FlagCleared(c) ==
    /\ calls[c].pc = "returned"
    /\ ~running_scans[calls[c].slug]
    /\ scan_finished_at[calls[c].slug] = now

\* C40: every run_scan call that has set the running flag of its slug comes to
\* clear it and to start the grace period, by whichever way it leaves (login
\* refused or raising, no path, a measurement raising, logout raising, the end
\* of cleanup); every step by which a call returns clears the flag; and once
\* the grace period has passed, a trigger for the slug is accepted.
C40_FlagClearedAndTriggerAccepted ==
    /\ \A c \in Calls : HoldsFlag(c) ~> FlagCleared(c)
    /\ [][\A c \in Calls : (HoldsFlag(c) /\ calls'[c].pc = "returned") => FlagCleared(c)']_vars
    /\ [](\A slug \in Slugs : GraceOver(slug) =>
             /\ ~IsScanRunning(slug)
             /\ TriggerResponse(slug).triggered)

\* a call that left through the outer handler (an exception) has come back
\* with a failed result, the grace period of its slug has passed and a
\* trigger for the slug is accepted
C40_Witness ==
    \E c \in Calls :
       /\ calls[c].pc = "returned"
       /\ StartedWork(c)
       /\ calls[c].res.status = "failed"
       /\ GraceOver(calls[c].slug)
       /\ TriggerResponse(calls[c].slug).triggered

====
